---- MODULE Spec2Model ----
(***************************************************************************)
(* TwinCountyMediaAgent: the delivery state machine of a newsletter        *)
(* (services/newsletter_builder.py), the scheduler that persists and       *)
(* auto-sends the pending newsletter (services/scheduler.py), the admin    *)
(* send endpoint (api/routes/admin.py) and the content classification      *)
(* passes (services/content_filter.py, content_repository.py).             *)
(*                                                                         *)
(* Every coroutine is a process whose pc names the await it is suspended   *)
(* at; one action is the code that runs between two awaits.                *)
(***************************************************************************)
EXTENDS Integers, Sequences, FiniteSets, TLC

\* ------------------------------------------------------------------ bounds
\* Number of newsletters the weekly generation job builds in one run of the model.
MaxNewsletters == 2
\* Number of content items ingested in one run of the model.
MaxItems == 2
\* Number of ContentRepository.create calls the scrape runs make in one run of the model.
MaxIngest == 3
\* Successful sends (values of sent_at) after which send_newsletter is not
\* called on its own any more.
MaxSends == 2
\* Approved items that arrive for the newsletters.
MaxContent == 3
\* Campaign webhooks Mailchimp delivers.
MaxWebhooks == 2
\* Items one scraper returns from one scrape().
MaxScraped == 2
\* asyncpg.create_pool calls over the life of the process.
MaxAttempts == 4

\* ------------------------------------------------------------- vocabulary
\* SQL NULL / Python None for an integer id or a timestamp.
NULL == 0

\* NewsletterStatus (database/models.py)
DRAFT == "draft"
PREVIEW_SENT == "preview_sent"
SENT == "sent"
FAILED == "failed"

\* The three recurring jobs SchedulerService.start registers.
RecurringJobs == {"newsletter_generation", "content_scraping", "content_filtering"}
\* The one-shot auto-send job id.
SendJob == "pending_newsletter_send"

\* settings.auto_send_after_preview (default)
auto_send_after_preview == TRUE

\* The coroutines that run _send_pending_newsletter: the job instance the
\* one-shot timer starts, and trigger_newsletter_send.
Senders == {"timer", "manual"}
\* The job ids of the scheduler: each names the instance of its handler
\* that APScheduler runs.
JobIds == RecurringJobs \cup {SendJob}
Procs == {"gen", "timer", "manual", "admin", "caller", "builder"} \cup JobIds

VARIABLES
    sent_newsletters,       \* table sent_newsletters: row id -> [status, mailchimp_campaign_id,
                            \*   sent_at, recipients_count]
    system_state,           \* table system_state, key 'scheduler': pending_newsletter_id
    pending_newsletter_id,  \* SchedulerService._pending_newsletter_id (in memory)
    jobs,                   \* job ids registered in the APScheduler job store (in memory)
    armed_for,              \* the newsletter_id the registered SendJob was added for
    pc,                     \* per coroutine: the await it is suspended at
    loc,                    \* per coroutine: its locals
    clock,                  \* datetime.now(), advanced at every sent_at write
    fresh_start,            \* TRUE from lifespan startup until the first job or request runs
    scraped_content,        \* table scraped_content: row id -> [url, url_hash, source_type, filter_status]
    breaker,                \* the CircuitBreaker that @circuit puts around _call_claude_api
    run,                    \* per classification pass: [pc, batch (the fetched snapshot), pos,
                            \*   k (how many filter_content calls it runs at a time)]
    calls,                  \* per pass, per batch position: the filter_content call
    ingest,                 \* per scrape run: the ScrapedContentCreate whose INSERT is awaited
    stats,                  \* create_many's counts over the scrape runs: [new, duplicate]
    window,                 \* history of the runs of batch_filter: TRUE from the failure that
                            \*   opens the breaker until recovery_timeout has passed since
    approved_rows,          \* the rows of scraped_content that are approved and inside the
                            \*   lookback window, by id: [county, is_event, title, category,
                            \*   content]; an event among
                            \*   them has its event_date inside the calendar's days_ahead
    newsletter_content_links, \* table newsletter_content_links: set of [newsletter_id,
                            \*   content_id, section, display_order]
    scrape,                 \* the run_scrape in progress: [pc, source_type, k (position in
                            \*   active_sources), sub (the stats of the _run_*_scrapers in
                            \*   progress), stats, last (how the last source ended)]
    database,               \* the Database of the process: [pool (_pool), attempts (what
                            \*   each asyncpg.create_pool call so far did), result (how the
                            \*   last connect() ended)]
    html_content            \* per newsletter id, the content ids its HTML shows
                            \*   [top_story, news_links, calendar], its top_story_html and
                            \*   subject_line, and the generator calls made for it

deliveryVars == <<sent_newsletters, system_state, pending_newsletter_id, jobs,
                  armed_for, pc, loc, clock, fresh_start>>

deliveryVars_but_pc_loc == <<sent_newsletters, system_state, pending_newsletter_id, jobs,
                            armed_for, clock, fresh_start>>

filterVars == <<scraped_content, breaker, run, calls, window>>

ingestVars == <<ingest, stats>>

assemblyVars == <<approved_rows, newsletter_content_links, html_content>>

vars == <<sent_newsletters, system_state, pending_newsletter_id, jobs,
          armed_for, pc, loc, clock, fresh_start,
          scraped_content, breaker, run, calls, ingest, stats, window,
          approved_rows, newsletter_content_links, html_content,
          scrape, database>>

\* Locals of a coroutine: the newsletter id it works on, the campaign id it
\* read from the row, and the pending id _save_state serialised (json.dumps)
\* before awaiting the UPDATE.
NoLocals == [id |-> NULL, campaign |-> NULL, state |-> NULL]

\* A row as NewsletterRepository.create inserts it: status defaults to 'draft'.
NewRow == [status |-> DRAFT, mailchimp_campaign_id |-> NULL, sent_at |-> NULL,
           recipients_count |-> 0]

\* No keyword arguments.
NoKw == [c \in {} |-> NULL]

\* An update_status whose UPDATE sets every optional column, to NULL when
\* its keyword is not passed.
update_status_every_column(table, id, status, kw) ==
    IF id \in DOMAIN table
    THEN [table EXCEPT ![id] =
            [c \in DOMAIN table[id] |->
                IF c = "status" THEN status
                ELSE IF c \in DOMAIN kw THEN kw[c]
                ELSE IF c \in {"mailchimp_campaign_id", "sent_at"} THEN NULL
                ELSE table[id][c]]]
    ELSE table

\* NewsletterRepository.update_status: writes status, and an optional
\* column only when its keyword is passed (kw maps column -> value).
update_status(table, id, status, kw) ==
    IF id \in DOMAIN table
    THEN [table EXCEPT ![id] =
            [c \in DOMAIN table[id] |->
                IF c = "status" THEN status
                ELSE IF c \in DOMAIN kw THEN kw[c]
                ELSE table[id][c]]]
    ELSE table

\* An update_metrics that also stamps sent_at.
update_metrics_stamps_sent_at(table, id, recipients_count, opens_count, clicks_count, now) ==
    IF id \in DOMAIN table
    THEN [table EXCEPT ![id] =
            [c \in DOMAIN table[id] |->
                CASE c = "recipients_count" -> recipients_count
                  [] c = "opens_count" -> opens_count
                  [] c = "clicks_count" -> clicks_count
                  [] c \in {"updated_at", "sent_at"} -> now
                  [] OTHER -> table[id][c]]]
    ELSE table

\* NewsletterRepository.update_metrics: UPDATE ... SET recipients_count,
\* opens_count, clicks_count, updated_at = NOW() WHERE id = $1.  Of these
\* columns the rows of the delivery model carry recipients_count only; a
\* column a row does not carry is not written.
update_metrics(table, id, recipients_count, opens_count, clicks_count, now) ==
    IF id \in DOMAIN table
    THEN [table EXCEPT ![id] =
            [c \in DOMAIN table[id] |->
                CASE c = "recipients_count" -> recipients_count
                  [] c = "opens_count" -> opens_count
                  [] c = "clicks_count" -> clicks_count
                  [] c = "updated_at" -> now
                  [] OTHER -> table[id][c]]]
    ELSE table

\* The SELECT of mailchimp_webhook: a row whose mailchimp_campaign_id is
\* campaign_id (fetchrow returns the first), NULL when there is none.
row_of_campaign(table, campaign_id) ==
    LET ids == {i \in DOMAIN table : table[i].mailchimp_campaign_id = campaign_id}
    IN IF ids = {} THEN NULL ELSE CHOOSE i \in ids : \A j \in ids : i <= j

\* NewsletterRepository.get_pending_newsletter: latest row with status
\* 'preview_sent' (ORDER BY created_at DESC LIMIT 1), NULL when there is none.
get_pending_newsletter(table) ==
    LET ids == {i \in DOMAIN table : table[i].status = PREVIEW_SENT}
    IN IF ids = {} THEN NULL ELSE CHOOSE i \in ids : \A j \in ids : j <= i

\* SchedulerService.get_pending_newsletter_id
get_pending_newsletter_id == pending_newsletter_id

\* SchedulerService._load_state: the pending id the system_state row holds.
\* No code path calls it (start() and lifespan do not), so no action uses it.
load_state == system_state

\* State after lifespan startup: schema created (system_state row holds
\* null), SchedulerService constructed and start() called.
DeliveryInit ==
    /\ sent_newsletters = <<>>
    /\ system_state = NULL
    /\ pending_newsletter_id = NULL
    /\ jobs = RecurringJobs
    /\ armed_for = NULL
    /\ pc = [p \in Procs |-> "idle"]
    /\ loc = [p \in Procs |-> NoLocals]
    /\ clock = 0
    /\ fresh_start = TRUE

\* ------------------------------------------------ classification: vocabulary
\* FilterStatus (database/models.py)
PENDING == "pending"
APPROVED == "approved"
REJECTED == "rejected"

\* The two classification passes: the scheduled job _run_content_filtering
\* and the background task of POST /filter/trigger.
Passes == {"job", "api"}

\* batch_filter's default max_concurrent (the scheduled job passes none).
max_concurrent == 5
\* @circuit(failure_threshold=5, ...) on _call_claude_api
failure_threshold == 5
\* settings.api_retry_attempts (default), stop_after_attempt
api_retry_attempts == 3
\* get_pending_content(limit=...) of the scheduled job and of the endpoint
job_limit == 100
api_limit == 1000

\* What one awaited _call_claude_api can produce: a response text whose
\* JSON decides approved or rejected, a response that is not JSON, a
\* transient error (RateLimitError, APIConnectionError, InternalServerError:
\* the types the retry decorator retries) or another anthropic.APIError.
ApiOutcomes == {"approved", "rejected", "not_json", "transient", "api_error"}

\* The same, and a response whose decision is "pending" (FilterStatus(...)
\* accepts every value of the enum, not only the two the prompt asks for),
\* a JSON response without the required key "reason" (result_data["reason"]
\* raises KeyError), a JSON response whose decision is no value of the enum
\* (FilterStatus("maybe") raises ValueError), and an exception that is no
\* Exception (asyncio.CancelledError), which no except clause of
\* filter_content catches.
AnyOutcome == ApiOutcomes \cup {"pending", "no_reason", "bad_decision", "cancelled"}

NoResult == [decision |-> PENDING, reason |-> <<>>]
NewCall == [st |-> "new", attempts |-> 0, result |-> NoResult, cause |-> "none"]
NoRun == [pc |-> "idle", batch |-> <<>>, pos |-> 0, k |-> 0]
\* filter_content returned `result`; cause records which path produced it.
Done(cause, result) == [st |-> "done", attempts |-> 0, result |-> result, cause |-> cause]
\* The result of this position has been written to the row.
Written == [st |-> "written", attempts |-> 0, result |-> NoResult, cause |-> "none"]

\* _create_error_result: a rejection whose reason is
\* f"Error during filtering: {error}" (a text is a sequence of words).
create_error_result(error) ==
    [decision |-> REJECTED, reason |-> <<"Error", "during", "filtering:">> \o error]

\* The FilterResult built from a well-formed response.
response_result(decision) ==
    [decision |-> decision, reason |-> <<"classifier", "reason">>]

\* What a call record holds when filter_content did not return but raised.
Raised == [decision |-> "raised", reason |-> <<>>]

\* filter_content with only its two specific except clauses, without the
\* closing `except Exception`: RetryError and CircuitBreakerError would
\* leave the method.
filter_except_specific(exc) ==
    CASE exc = "JSONDecodeError" -> create_error_result(<<"JSON", "parse", "error:", "Expecting", "value">>)
      [] exc = "APIError" -> create_error_result(<<"API", "error:", "unavailable">>)
      [] OTHER -> Raised

\* The except clauses of filter_content, by the exception that reached them:
\* json.JSONDecodeError, anthropic.APIError, and any other Exception (whose
\* str() is the reason: tenacity's RetryError once the attempts are used up,
\* circuitbreaker's CircuitBreakerError while the circuit is open, the
\* KeyError of a missing key, the ValueError of FilterStatus(...)).  Only a
\* BaseException that is no Exception would leave filter_content.
filter_except(exc) ==
    CASE exc = "JSONDecodeError" -> create_error_result(<<"JSON", "parse", "error:", "Expecting", "value">>)
      [] exc = "APIError" -> create_error_result(<<"API", "error:", "unavailable">>)
      [] exc = "RetryError" -> create_error_result(<<"RetryError[RateLimitError]">>)
      [] exc = "CircuitBreakerError" ->
            create_error_result(<<"Circuit", "OPEN", "until", "(last_failure:", "RateLimitError)">>)
      [] exc = "KeyError" -> create_error_result(<<"'reason'">>)
      [] exc = "ValueError" ->
            create_error_result(<<"'maybe'", "is", "not", "a", "valid", "FilterStatus">>)
      [] OTHER -> Raised

\* retry_if_exception_type of any anthropic.APIError, not only the three
\* transient types.
retry_if_any_api_error(outcome) == outcome \in {"transient", "api_error"}

\* The retry decorator's retry_if_exception_type((RateLimitError,
\* APIConnectionError, InternalServerError)): only a transient error is retried.
retry_if_exception_type(outcome) == outcome = "transient"

\* circuitbreaker's `opened`: calls are refused while the state is OPEN and
\* the recovery timeout has not elapsed; after it the state reads HALF_OPEN
\* and calls go through.
breaker_opened(b) == b.state = "open" /\ ~b.cooled

\* circuitbreaker after a call that raised the expected exception
\* (anthropic.APIError): count it, and open at the threshold (every later
\* failure opens it again and restarts the recovery timeout).  The count is
\* only ever compared with the threshold, so it is kept up to the threshold.
breaker_failed(b) ==
    IF b.failures + 1 >= failure_threshold
    THEN [failures |-> failure_threshold, state |-> "open", cooled |-> FALSE]
    ELSE [b EXCEPT !.failures = b.failures + 1]

\* circuitbreaker after a call that returned: close and reset the count.
breaker_succeeded(b) == [failures |-> 0, state |-> "closed", cooled |-> FALSE]

\* The ids of a finite set of row ids, highest first.
RECURSIVE Descending(_)
Descending(S) ==
    IF S = {} THEN <<>>
    ELSE LET m == CHOOSE x \in S : \A y \in S : y <= x
         IN <<m>> \o Descending(S \ {m})

\* ContentRepository.get_pending_content: the pending rows, newest first
\* (ORDER BY scraped_at DESC), at most `limit` of them.
get_pending_content(table, limit) ==
    LET all == Descending({i \in DOMAIN table : table[i].filter_status = PENDING})
    IN SubSeq(all, 1, IF Len(all) < limit THEN Len(all) ELSE limit)

\* ContentRepository.update_filter_result: UPDATE ... WHERE id = $1, with
\* no condition on the row's current filter_status (of the columns it
\* writes, the model keeps filter_status).
update_filter_result(table, id, result) ==
    IF id \in DOMAIN table
    THEN [table EXCEPT ![id].filter_status = result.decision]
    ELSE table

\* ------------------------------------------------------ ingestion: vocabulary
\* A URL is the sequence of the pieces of its text: scheme and host, "/",
\* a path segment, "?", a query parameter, "&", " " (white space).

\* The scrapers whose items reach _store_items: NewsScraper (CouncilScraper
\* treats its links the same way) and BrightDataSocialScraper.
Sources == {"news", "social"}

\* Two scrape runs that can overlap: the scheduled job and POST /scrape/trigger.
ScrapeRuns == {"scheduled", "manual"}

\* The page of the source a link is resolved against.
base_url == <<"https://x.com", "/">>

\* Links and post URLs the sources publish.
Hrefs ==
    { <<"https://x.com", "/", "a">>,
      <<"https://x.com", "/", "a", "?", "utm_source=fb">>,
      <<"https://x.com", "/", "a", "/">>,
      <<"HTTPS://X.COM", "/", "A">>,
      <<"https://x.com", "/", "a", "?", "id=1", "&", "fbclid=z">>,
      <<"https://x.com", "/", "a", "?", "id=1">> }

\* str.rstrip(ch) and str.lstrip(ch)
RECURSIVE rstrip(_, _)
rstrip(s, ch) ==
    IF s # <<>> /\ s[Len(s)] = ch THEN rstrip(SubSeq(s, 1, Len(s) - 1), ch) ELSE s

RECURSIVE lstrip(_, _)
lstrip(s, ch) ==
    IF s # <<>> /\ s[1] = ch THEN lstrip(Tail(s), ch) ELSE s

\* str.strip()
strip(s) == rstrip(lstrip(s, " "), " ")

\* str.lower()
lower(s) ==
    [k \in DOMAIN s |->
        CASE s[k] = "HTTPS://X.COM" -> "https://x.com"
          [] s[k] = "A" -> "a"
          [] OTHER -> s[k]]

\* hashlib.sha256(...).hexdigest(): distinct texts have distinct digests.
sha256(s) == <<"sha256">> \o s

\* ScrapedItem.url_hash: the digest of the URL stripped and lower-cased.
url_hash(url) == sha256(lower(strip(url)))

\* str.startswith(prefix) for a query parameter.
startswith(param, prefix) ==
    /\ param # <<>>
    /\ <<param[1], prefix>> \in { <<"utm_source=fb", "utm_">>, <<"fbclid=z", "fbclid">> }

\* The position of the first ch in s, 0 when there is none.
find(s, ch) ==
    IF \E k \in DOMAIN s : s[k] = ch
    THEN CHOOSE k \in DOMAIN s : s[k] = ch /\ \A j \in 1..(k - 1) : s[j] # ch
    ELSE 0

\* str.split(sep): the pieces between the separators.
RECURSIVE split(_, _)
split(s, sep) ==
    LET k == find(s, sep) IN
    IF k = 0 THEN <<s>> ELSE <<SubSeq(s, 1, k - 1)>> \o split(SubSeq(s, k + 1, Len(s)), sep)

\* sep.join(parts)
RECURSIVE join(_, _)
join(parts, sep) ==
    IF parts = <<>> THEN <<>>
    ELSE IF Len(parts) = 1 THEN parts[1]
    ELSE parts[1] \o <<sep>> \o join(Tail(parts), sep)

\* normalize_url's tracking_params
tracking_params == {"utm_", "fbclid", "gclid", "ref", "source"}

\* A parameter normalize_url keeps.
not_tracking(param) == ~ \E t \in tracking_params : startswith(param, t)

\* BaseScraper.normalize_url
normalize_url(url, base) ==
    LET u0 == strip(url)
        u1 == IF u0 # <<>> /\ u0[1] = "/" THEN rstrip(base, "/") \o u0
              ELSE IF u0 = <<>> \/ u0[1] \notin {"https://x.com", "http://x.com"}
                   THEN rstrip(base, "/") \o <<"/">> \o u0
                   ELSE u0
        q == find(u1, "?")
        u2 == IF q = 0 THEN u1
              ELSE LET head == SubSeq(u1, 1, q - 1)
                       clean_params == SelectSeq(split(SubSeq(u1, q + 1, Len(u1)), "&"),
                                                 not_tracking)
                   IN IF clean_params # <<>>
                      THEN head \o <<"?">> \o join(clean_params, "&")
                      ELSE head
    IN rstrip(u2, "/")

\* The url of the ScrapedItem a scraper builds from a link: NewsScraper
\* passes it through normalize_url (_extract_article_urls), the social
\* scraper takes the post's url field as it is (_parse_post).
item_url(source, href) ==
    IF source = "news" THEN normalize_url(href, base_url) ELSE href

\* ScraperOrchestrator._store_items: the ScrapedContentCreate of an item
\* (the row's filter_status is the column default 'pending').
ScrapedContentCreate(source, href) ==
    [url |-> item_url(source, href),
     url_hash |-> url_hash(item_url(source, href)),
     source_type |-> source,
     filter_status |-> PENDING]

\* INSERT ... RETURNING id without the ON CONFLICT clause, on a table
\* without the unique_url_hash constraint.
insert_returning_id(table, row) ==
    [table |-> Append(table, row), id |-> Len(table) + 1]

\* The statement of ContentRepository.create: INSERT ... ON CONFLICT
\* (url_hash) DO NOTHING RETURNING id.  With a row of that url_hash
\* present nothing is written and no id is returned.
insert_on_conflict_do_nothing(table, row) ==
    IF \E i \in DOMAIN table : table[i].url_hash = row.url_hash
    THEN [table |-> table, id |-> NULL]
    ELSE [table |-> Append(table, row), id |-> Len(table) + 1]

NoIngest == [pc |-> "idle", content |-> NULL]

IngestInit ==
    /\ ingest = [r \in ScrapeRuns |-> NoIngest]
    /\ stats = [new |-> 0, duplicate |-> 0]

FilterInit ==
    /\ scraped_content = <<>>
    /\ breaker = [failures |-> 0, state |-> "closed", cooled |-> FALSE]
    /\ run = [r \in Passes |-> NoRun]
    /\ calls = [r \in Passes |-> <<>>]
    /\ window = FALSE

\* ---------------------------------------------------- newsletter assembly
\* by_county of _generate_news_links_section, in its order
by_county == <<"nash", "edgecombe", "wilson", "regional">>
\* county_items[:5]
news_links_limit == 5
\* sorted_events[:10]
calendar_limit == 10

\* seq[:n]
Slice(seq, n) == SubSeq(seq, 1, IF Len(seq) < n THEN Len(seq) ELSE n)

RECURSIVE Ascending(_)
Ascending(S) ==
    IF S = {} THEN <<>>
    ELSE LET m == CHOOSE x \in S : \A y \in S : x <= y
         IN <<m>> \o Ascending(S \ {m})

\* ContentRepository.get_approved_content(exclude_used=True): the rows with
\* no row in newsletter_content_links (LEFT JOIN ... WHERE ncl.id IS NULL),
\* newest first.
get_approved_content(rows, links) ==
    Descending({i \in DOMAIN rows : ~ \E l \in links : l.content_id = i})

\* ContentRepository.get_approved_events: every approved event whose date
\* is inside the horizon, by date (the model's events are dated in the
\* order of their ids); the query does not look at the links.
get_approved_events(rows) ==
    Ascending({i \in DOMAIN rows : rows[i].is_event})

\* priority_order of _select_top_story
priority_order == <<"event", "announcement", "news", "promotion", "government", "other">>

\* category_score with an unknown category ranked before the known ones.
category_score_unknown_first(category) ==
    IF \E k \in DOMAIN priority_order : priority_order[k] = category
    THEN (CHOOSE k \in DOMAIN priority_order : priority_order[k] = category) - 1
    ELSE 0 - 1

\* priority_order.index(item.category) if item.category in priority_order else 99
category_score(category) ==
    IF \E k \in DOMAIN priority_order : priority_order[k] = category
    THEN (CHOOSE k \in DOMAIN priority_order : priority_order[k] = category) - 1
    ELSE 99

\* score(item): (has_title, category_score, length_score)
score(item) ==
    <<IF item.title # "" THEN 0 ELSE 1, category_score(item.category), 0 - Len(item.content)>>

\* Python's order of tuples: s < t
tuple_less(s, t) ==
    \E k \in DOMAIN s :
        /\ s[k] < t[k]
        /\ \A j \in 1..(k - 1) : s[j] = t[j]

\* sorted(content, key=score): a stable sort; an item goes behind the
\* items of smaller key and before the later items of the same key.
RECURSIVE sorted(_, _)
sorted(rows, content) ==
    IF content = <<>> THEN <<>>
    ELSE LET x == Head(content)
             rest == sorted(rows, Tail(content))
         IN SelectSeq(rest, LAMBDA y : tuple_less(score(rows[y]), score(rows[x])))
              \o <<x>>
              \o SelectSeq(rest, LAMBDA y : ~ tuple_less(score(rows[y]), score(rows[x])))

\* _select_top_story: None for an empty list, else the first of the list
\* sorted by score.
select_top_story(rows, content) ==
    IF content = <<>> THEN NULL ELSE Head(sorted(rows, content))

\* The county group an item is rendered in.
county_of(rows, i) ==
    IF \E k \in DOMAIN by_county : by_county[k] = rows[i].county
    THEN rows[i].county ELSE "regional"

\* _generate_news_links_section: the items grouped by county, the groups in
\* the order of by_county, at most five items of a group rendered.
RECURSIVE news_links_from(_, _, _)
news_links_from(rows, items, k) ==
    IF k > Len(by_county) THEN <<>>
    ELSE Slice(SelectSeq(items, LAMBDA i : county_of(rows, i) = by_county[k]),
               news_links_limit)
           \o news_links_from(rows, items, k + 1)

generate_news_links_section(rows, items) == news_links_from(rows, items, 1)

\* _generate_calendar_section: the events that have a date (all of them),
\* by date, at most ten rendered.
generate_calendar_section(events) == Slice(events, calendar_limit)

\* The subject _generate_subject_line returns from its except clause.
default_subject == <<"Your", "Twin", "County", "Weekly", "Update">>

\* What client.messages.create does when it is called for a newsletter.
GeneratorOutcomes == {"ok", "failed"}

\* _generate_top_story whose except clause raises again.
generate_top_story_reraises(outcome) ==
    IF outcome = "ok"
    THEN [html |-> "story_text", calls |-> 1]
    ELSE [html |-> "raised", calls |-> 1]

\* _generate_top_story: one client.messages.create; its text, or from the
\* except clause the item's summary.
generate_top_story(outcome) ==
    IF outcome = "ok"
    THEN [html |-> "story_text", calls |-> 1]
    ELSE [html |-> "summary", calls |-> 1]

\* _generate_subject_line: one client.messages.create; its text, or from
\* the except clause the default subject.
generate_subject_line(outcome) ==
    IF outcome = "ok"
    THEN [subject |-> <<"generated", "subject">>, calls |-> 1]
    ELSE [subject |-> default_subject, calls |-> 1]

\* generate_newsletter_content: what the three sections show, the top
\* story's body and the subject line, with the outcomes of the two
\* generator calls and their number.
generate_newsletter_content(rows, approved_content, events, top_outcome, subject_outcome) ==
    LET top_story == select_top_story(rows, approved_content)
        story == generate_top_story(top_outcome)
        line == generate_subject_line(subject_outcome)
    IN
    [top_story |-> top_story,
     news_links |-> generate_news_links_section(
                        rows, SelectSeq(approved_content, LAMBDA i : i # top_story)),
     calendar |-> generate_calendar_section(events),
     top_story_html |-> story.html,
     subject_line |-> line.subject,
     generator |-> [top_story |-> top_outcome, subject |-> subject_outcome,
                    calls |-> story.calls + line.calls]]

\* NewsletterRepository.link_content: INSERT ... ON CONFLICT (newsletter_id,
\* content_id) DO NOTHING.
link_content(links, newsletter_id, content_id, section, display_order) ==
    IF \E l \in links : l.newsletter_id = newsletter_id /\ l.content_id = content_id
    THEN links
    ELSE links \cup {[newsletter_id |-> newsletter_id, content_id |-> content_id,
                      section |-> section, display_order |-> display_order]}

\* build_newsletter's first loop, from position i of approved_content on
\* (enumerate counts from 0).
RECURSIVE link_approved(_, _, _, _, _)
link_approved(links, newsletter_id, approved_content, top_story_source_id, i) ==
    IF i > Len(approved_content) THEN links
    ELSE link_approved(
             link_content(links, newsletter_id, approved_content[i],
                          IF approved_content[i] = top_story_source_id
                          THEN "top_story" ELSE "news_links",
                          i - 1),
             newsletter_id, approved_content, top_story_source_id, i + 1)

\* build_newsletter's second loop, from position i of events on.
RECURSIVE link_events(_, _, _, _)
link_events(links, newsletter_id, events, i) ==
    IF i > Len(events) THEN links
    ELSE link_events(link_content(links, newsletter_id, events[i], "calendar", i - 1),
                     newsletter_id, events, i + 1)

AssemblyInit ==
    /\ approved_rows = <<>>
    /\ newsletter_content_links = {}
    /\ html_content = <<>>

\* ------------------------------------------------------------------ run_scrape
\* get_active_news_sources(), get_active_council_sources() and
\* get_active_social_sources(), in the order run_scrape visits them.
active_sources == <<"news", "news", "council", "social">>

\* Settings.enable_council_scraping (default)
enable_council_scraping == TRUE
\* Settings.enable_social_scraping (default)
enable_social_scraping == TRUE
\* Settings.social_scraping_enabled, with bright_data_api_key configured
social_scraping_enabled == enable_social_scraping

\* The source_type values POST /scrape/trigger and the scheduled job pass
\* ("all": None).
SourceTypes == {"all", "news", "council", "social"}

\* The links a scrape() finds on the pages of a source.
ScrapedLinks ==
    { <<"https://x.com", "/", "a">>,
      <<"https://x.com", "/", "a", "/">> }

\* The lists of items scrape() can return.
ItemLists == UNION { [1..n -> ScrapedLinks] : n \in 0..MaxScraped }

\* The scraper class of a kind of source: CouncilScraper extracts its links
\* the way NewsScraper does.
scraper_of(kind) == IF kind = "social" THEN "social" ELSE "news"

\* The conditions of run_scrape under which the sources of a kind are run.
Selected(source_type, kind) ==
    /\ source_type = "all" \/ source_type = kind
    /\ kind = "council" => enable_council_scraping
    /\ kind = "social" => enable_social_scraping /\ social_scraping_enabled

\* The position of the next source run_scrape visits after position k
\* (0: none is left).
next_source(source_type, k) ==
    LET later == {j \in (k + 1)..Len(active_sources) :
                     Selected(source_type, active_sources[j])}
    IN IF later = {} THEN 0 ELSE CHOOSE j \in later : \A i \in later : j <= i

\* stats of _run_news_scrapers and its siblings at their start.
ZeroStats ==
    [sources_scraped |-> 0, items_found |-> 0, items_new |-> 0, items_duplicate |-> 0]

\* stats of run_scrape at its start (errors: the length of the list).
RunStats ==
    [sources_scraped |-> 0, items_found |-> 0, items_new |-> 0, items_duplicate |-> 0,
     errors |-> 0]

\* ScraperOrchestrator._merge_stats
merge_stats(main, sub) ==
    [main EXCEPT !.sources_scraped = @ + sub.sources_scraped,
                 !.items_found = @ + sub.items_found,
                 !.items_new = @ + sub.items_new,
                 !.items_duplicate = @ + sub.items_duplicate]

\* The loop of create_many from an item on: ContentRepository.create for
\* each item in turn, counted as new when an id came back and as duplicate
\* when none did.  The create that is the fail_in-th from here raises (the
\* database is unreachable) and ends the loop; fail_in < 1: none raises.
RECURSIVE create_many_loop(_, _, _)
create_many_loop(acc, contents, fail_in) ==
    IF contents = <<>> THEN acc
    ELSE IF fail_in = 1 THEN [acc EXCEPT !.raised = TRUE]
    ELSE LET done == insert_on_conflict_do_nothing(acc.table, Head(contents)) IN
         create_many_loop(
            [table |-> done.table,
             new |-> IF done.id # NULL THEN acc.new + 1 ELSE acc.new,
             duplicate |-> IF done.id # NULL THEN acc.duplicate ELSE acc.duplicate + 1,
             raised |-> FALSE],
            Tail(contents), fail_in - 1)

\* A create_many that counts every item as new.
create_many_counts_all_new(table, contents, fail_at) ==
    LET r == create_many_loop([table |-> table, new |-> 0, duplicate |-> 0,
                               raised |-> FALSE], contents, fail_at)
    IN [r EXCEPT !.new = r.new + r.duplicate, !.duplicate = 0]

\* ContentRepository.create_many: the table afterwards and the counts it
\* returns, or raised when the fail_at-th create raised (0: none did).
create_many(table, contents, fail_at) ==
    create_many_loop([table |-> table, new |-> 0, duplicate |-> 0, raised |-> FALSE],
                     contents, fail_at)

\* _store_items: the ScrapedContentCreate of each item.
contents_of(kind, items) ==
    [n \in DOMAIN items |-> ScrapedContentCreate(scraper_of(kind), items[n])]

\* An except clause of the source loop that raises again: the exception
\* reaches the except clause of run_scrape.
source_except_reraises(scr, exc) ==
    [scr EXCEPT !.pc = "except", !.last = exc]

\* The except clause of the loop over the sources: the error is logged,
\* the stats are as they were before the source.
source_except(scr, exc) ==
    [scr EXCEPT !.last = exc]

\* The source at scr.k is done: the loop goes on with the next source of
\* the kind; after the last one of a kind _merge_stats adds the kind's
\* stats to the run's, and after the last kind comes _record_scrape_run.
after_source(scr) ==
    LET j == next_source(scr.source_type, scr.k)
        kind_ends == j = 0 \/ active_sources[j] # active_sources[scr.k]
        merged == IF kind_ends
                  THEN [scr EXCEPT !.stats = merge_stats(@, scr.sub), !.sub = ZeroStats]
                  ELSE scr
    IN [merged EXCEPT !.k = j, !.pc = IF j = 0 THEN "record" ELSE "sources"]

NoScrape ==
    [pc |-> "idle", source_type |-> "all", k |-> 0, sub |-> ZeroStats, stats |-> RunStats,
     last |-> "none"]

ScrapeInit == scrape = NoScrape

\* ------------------------------------------------------------ Database.connect
\* What one asyncpg.create_pool call followed by the test query does.
PoolOutcomes == {"ok", "refused", "query_failed"}

\* Database.__init__
DatabaseInit == database = [pool |-> "None", attempts |-> <<>>, result |-> "none"]

Init ==
    /\ DeliveryInit /\ FilterInit /\ IngestInit /\ AssemblyInit
    /\ ScrapeInit /\ DatabaseInit

\* ---------------------------------------------- _generate_and_preview_newsletter
\* The cron job fires; build_newsletter inserts the Draft row and its links,
\* then build_and_send_preview awaits create_campaign.
GenBuild ==
    /\ pc["gen"] = "idle"
    /\ "newsletter_generation" \in jobs
    /\ Len(sent_newsletters) < MaxNewsletters
    /\ sent_newsletters' = Append(sent_newsletters, NewRow)
    /\ loc' = [loc EXCEPT !["gen"] = [NoLocals EXCEPT !.id = Len(sent_newsletters) + 1]]
    /\ pc' = [pc EXCEPT !["gen"] = "preview"]
    /\ fresh_start' = FALSE
    /\ UNCHANGED <<filterVars, ingestVars, assemblyVars, scrape, database>>
    /\ UNCHANGED <<system_state, pending_newsletter_id, jobs, armed_for, clock>>

\* _generate_and_preview_newsletter with the assignment of
\* _pending_newsletter_id and the add_job in a `finally`: they run after a
\* failed preview too.
GenPreviewFinally ==
    /\ pc["gen"] = "preview"
    /\ \E mailchimp \in {"ok", "create_failed", "test_failed"}, db_ok \in BOOLEAN, db_ok2 \in BOOLEAN :
         LET id == loc["gen"].id IN
         /\ sent_newsletters' =
               IF mailchimp = "ok" /\ db_ok
               THEN update_status(sent_newsletters, id, PREVIEW_SENT,
                                  [mailchimp_campaign_id |-> id])
               ELSE IF db_ok2 THEN update_status(sent_newsletters, id, FAILED, NoKw)
               ELSE sent_newsletters
         /\ pending_newsletter_id' = id
         /\ loc' = [loc EXCEPT !["gen"].state = id]
         /\ pc' = [pc EXCEPT !["gen"] = "save"]
    /\ fresh_start' = FALSE
    /\ UNCHANGED <<filterVars, ingestVars, assemblyVars, scrape, database>>
    /\ UNCHANGED <<system_state, jobs, armed_for, clock>>

\* build_and_send_preview storing the campaign id as soon as create_campaign
\* returned: a failed test send leaves a Failed row with a campaign id.
GenPreviewStoresCampaign ==
    /\ pc["gen"] = "preview"
    /\ \E mailchimp \in {"ok", "create_failed", "test_failed"}, db_ok \in BOOLEAN, db_ok2 \in BOOLEAN :
         LET id == loc["gen"].id IN
         IF mailchimp = "ok" /\ db_ok
         THEN /\ sent_newsletters' = update_status(sent_newsletters, id, PREVIEW_SENT,
                                                   [mailchimp_campaign_id |-> id])
              /\ pending_newsletter_id' = id
              /\ loc' = [loc EXCEPT !["gen"].state = id]
              /\ pc' = [pc EXCEPT !["gen"] = "save"]
         ELSE /\ sent_newsletters' =
                    IF db_ok2
                    THEN update_status(sent_newsletters, id, FAILED,
                                       IF mailchimp = "test_failed"
                                       THEN [mailchimp_campaign_id |-> id] ELSE NoKw)
                    ELSE sent_newsletters
              /\ pending_newsletter_id' = pending_newsletter_id
              /\ loc' = [loc EXCEPT !["gen"] = NoLocals]
              /\ pc' = [pc EXCEPT !["gen"] = "idle"]
    /\ fresh_start' = FALSE
    /\ UNCHANGED <<filterVars, ingestVars, assemblyVars, scrape, database>>
    /\ UNCHANGED <<system_state, jobs, armed_for, clock>>

\* build_and_send_preview after create_campaign and send_test_email: on
\* success the row becomes PreviewSent with the campaign id (the campaign of
\* newsletter n is named n), the id is returned and the scheduler assigns
\* _pending_newsletter_id and starts _save_state; on any exception (the
\* collaborator's, or the status write's) the except branch writes Failed
\* and re-raises, which the job's handler logs.
GenPreview ==
    /\ pc["gen"] = "preview"
    /\ \E mailchimp \in {"ok", "create_failed", "test_failed"}, db_ok \in BOOLEAN, db_ok2 \in BOOLEAN :
         LET id == loc["gen"].id IN
         IF mailchimp = "ok" /\ db_ok
         THEN /\ sent_newsletters' = update_status(sent_newsletters, id, PREVIEW_SENT,
                                                   [mailchimp_campaign_id |-> id])
              /\ pending_newsletter_id' = id
              /\ loc' = [loc EXCEPT !["gen"].state = id]
              /\ pc' = [pc EXCEPT !["gen"] = "save"]
         ELSE /\ sent_newsletters' = IF db_ok2
                                     THEN update_status(sent_newsletters, id, FAILED, NoKw)
                                     ELSE sent_newsletters
              /\ pending_newsletter_id' = pending_newsletter_id
              /\ loc' = [loc EXCEPT !["gen"] = NoLocals]
              /\ pc' = [pc EXCEPT !["gen"] = "idle"]
    /\ fresh_start' = FALSE
    /\ UNCHANGED <<filterVars, ingestVars, assemblyVars, scrape, database>>
    /\ UNCHANGED <<system_state, jobs, armed_for, clock>>

\* An add_job that leaves a job of the same id as it is.
add_job_keeps_existing(store, job_id, newsletter_id) ==
    IF job_id \in store.jobs THEN store
    ELSE [jobs |-> store.jobs \cup {job_id}, armed_for |-> newsletter_id]

\* scheduler.add_job(_send_pending_newsletter, DateTrigger(send_time), id=job_id,
\* replace_existing=True) on the job store [jobs, armed_for]: a job of
\* that id is replaced by the new one.
add_job(store, job_id, newsletter_id) ==
    [jobs |-> store.jobs \cup {job_id}, armed_for |-> newsletter_id]

\* _save_state's UPDATE completes or raises (the exception is logged and
\* swallowed); then, with auto-send on, add_job(replace_existing=True).
GenSave ==
    /\ pc["gen"] = "save"
    /\ \E db_ok \in BOOLEAN :
         system_state' = IF db_ok THEN loc["gen"].state ELSE system_state
    /\ IF auto_send_after_preview
       THEN LET added == add_job([jobs |-> jobs, armed_for |-> armed_for], SendJob,
                                 loc["gen"].id)
            IN /\ jobs' = added.jobs
               /\ armed_for' = added.armed_for
       ELSE UNCHANGED <<jobs, armed_for>>
    /\ loc' = [loc EXCEPT !["gen"] = NoLocals]
    /\ pc' = [pc EXCEPT !["gen"] = "idle"]
    /\ fresh_start' = FALSE
    /\ UNCHANGED <<filterVars, ingestVars, assemblyVars, scrape, database>>
    /\ UNCHANGED <<sent_newsletters, pending_newsletter_id, clock>>

\* ------------------------------------------------------ _send_pending_newsletter
\* Entry of _send_pending_newsletter in coroutine p: return at once without
\* a pending id, else call send_newsletter(pending id), which awaits get_by_id.
SendPendingEntry(p) ==
    IF pending_newsletter_id = NULL
    THEN UNCHANGED <<pc, loc>>
    ELSE /\ loc' = [loc EXCEPT ![p] = [NoLocals EXCEPT !.id = pending_newsletter_id]]
         /\ pc' = [pc EXCEPT ![p] = "get"]

\* The one-shot DateTrigger fires: the job leaves the job store; its
\* coroutine starts unless an instance of the same job id is still running
\* (APScheduler's max_instances = 1 skips the run).
TimerFire ==
    /\ SendJob \in jobs
    /\ jobs' = jobs \ {SendJob}
    /\ armed_for' = NULL
    /\ IF pc["timer"] = "idle" THEN SendPendingEntry("timer") ELSE UNCHANGED <<pc, loc>>
    /\ fresh_start' = FALSE
    /\ UNCHANGED <<filterVars, ingestVars, assemblyVars, scrape, database>>
    /\ UNCHANGED <<sent_newsletters, system_state, pending_newsletter_id, clock>>

\* trigger_newsletter_send with a pending id: remove the job if it is there
\* (JobLookupError is ignored) and run _send_pending_newsletter.  Without a
\* pending id it only logs.
trigger_newsletter_send ==
    /\ pc["manual"] = "idle"
    /\ pending_newsletter_id # NULL
    /\ jobs' = jobs \ {SendJob}
    /\ armed_for' = NULL
    /\ SendPendingEntry("manual")
    /\ fresh_start' = FALSE
    /\ UNCHANGED <<filterVars, ingestVars, assemblyVars, scrape, database>>
    /\ UNCHANGED <<sent_newsletters, system_state, pending_newsletter_id, clock>>

\* After send_newsletter returned True or False: the pending id is cleared
\* in memory and _save_state is started.
ClearPending(p) ==
    /\ pending_newsletter_id' = NULL
    /\ loc' = [loc EXCEPT ![p] = NoLocals]
    /\ pc' = [pc EXCEPT ![p] = "save"]

\* send_newsletter raised: the handler of _send_pending_newsletter logs the
\* exception and returns; the pending id is left as it is.  Any other
\* caller gets the exception.
SendRaised(p) ==
    /\ pending_newsletter_id' = pending_newsletter_id
    /\ loc' = [loc EXCEPT ![p] = IF p \in Senders THEN NoLocals ELSE [NoLocals EXCEPT !.id = loc[p].id]]
    /\ pc' = [pc EXCEPT ![p] = IF p \in Senders THEN "idle" ELSE "raised"]

\* send_newsletter returns result ("True" or "False"): inside
\* _send_pending_newsletter the pending id is cleared next, whatever the
\* result; any other caller holds the result.
SendReturned(p, result) ==
    IF p \in Senders THEN ClearPending(p)
    ELSE /\ pending_newsletter_id' = pending_newsletter_id
         /\ loc' = [loc EXCEPT ![p] = [NoLocals EXCEPT !.id = loc[p].id]]
         /\ pc' = [pc EXCEPT ![p] = result]

\* send_newsletter(newsletter_id) called on its own, for any id: it awaits
\* get_by_id.
send_newsletter(newsletter_id) ==
    /\ clock < MaxSends
    /\ pc["caller"] \in {"idle", "True", "False", "raised"}
    /\ loc' = [loc EXCEPT !["caller"] = [NoLocals EXCEPT !.id = newsletter_id]]
    /\ pc' = [pc EXCEPT !["caller"] = "get"]
    /\ fresh_start' = FALSE
    /\ UNCHANGED <<filterVars, ingestVars, assemblyVars, scrape, database>>
    /\ UNCHANGED <<sent_newsletters, system_state, pending_newsletter_id, jobs,
                   armed_for, clock>>

\* send_newsletter without the test of mailchimp_campaign_id.
SendGetUnchecked(p) ==
    /\ pc[p] = "get"
    /\ \E db_ok \in BOOLEAN :
         LET id == loc[p].id IN
         IF ~db_ok THEN SendRaised(p)
         ELSE IF id \notin DOMAIN sent_newsletters THEN SendReturned(p, "False")
         ELSE /\ loc' = [loc EXCEPT ![p].campaign = sent_newsletters[id].mailchimp_campaign_id]
              /\ pc' = [pc EXCEPT ![p] = "send"]
              /\ pending_newsletter_id' = pending_newsletter_id
    /\ fresh_start' = FALSE
    /\ UNCHANGED <<filterVars, ingestVars, assemblyVars, scrape, database>>
    /\ UNCHANGED <<sent_newsletters, system_state, jobs, armed_for, clock>>

\* send_newsletter: get_by_id returns (or raises).  A missing row or a row
\* without campaign id returns False; else send_campaign is called.
SendGet(p) ==
    /\ pc[p] = "get"
    /\ \E db_ok \in BOOLEAN :
         LET id == loc[p].id IN
         IF ~db_ok THEN SendRaised(p)
         ELSE IF id \notin DOMAIN sent_newsletters THEN SendReturned(p, "False")
         ELSE IF sent_newsletters[id].mailchimp_campaign_id = NULL THEN SendReturned(p, "False")
         ELSE /\ loc' = [loc EXCEPT ![p].campaign = sent_newsletters[id].mailchimp_campaign_id]
              /\ pc' = [pc EXCEPT ![p] = "send"]
              /\ pending_newsletter_id' = pending_newsletter_id
    /\ fresh_start' = FALSE
    /\ UNCHANGED <<filterVars, ingestVars, assemblyVars, scrape, database>>
    /\ UNCHANGED <<sent_newsletters, system_state, jobs, armed_for, clock>>

\* mailchimp.send_campaign returns or raises; send_newsletter then awaits
\* update_status(SENT, sent_at=now) or, in the except branch, update_status(FAILED).
SendCampaign(p) ==
    /\ pc[p] = "send"
    /\ \E mailchimp_ok \in BOOLEAN :
         pc' = [pc EXCEPT ![p] = IF mailchimp_ok THEN "mark_sent" ELSE "mark_failed"]
    /\ fresh_start' = FALSE
    /\ UNCHANGED <<filterVars, ingestVars, assemblyVars, scrape, database>>
    /\ UNCHANGED <<sent_newsletters, system_state, pending_newsletter_id, jobs,
                   armed_for, loc, clock>>

\* update_status(SENT, sent_at=datetime.now()) completes: send_newsletter
\* returns True.  If the write raises, the except branch awaits update_status(FAILED).
MarkSent(p) ==
    /\ pc[p] = "mark_sent"
    /\ \E db_ok \in BOOLEAN :
         IF db_ok
         THEN /\ sent_newsletters' = update_status(sent_newsletters, loc[p].id, SENT,
                                                   [sent_at |-> clock + 1])
              /\ clock' = clock + 1
              /\ SendReturned(p, "True")
         ELSE /\ pc' = [pc EXCEPT ![p] = "mark_failed"]
              /\ UNCHANGED <<sent_newsletters, clock, pending_newsletter_id, loc>>
    /\ fresh_start' = FALSE
    /\ UNCHANGED <<filterVars, ingestVars, assemblyVars, scrape, database>>
    /\ UNCHANGED <<system_state, jobs, armed_for>>

\* update_status(FAILED) in the except branch completes: send_newsletter
\* returns False.  If this write raises too, send_newsletter raises.
MarkFailed(p) ==
    /\ pc[p] = "mark_failed"
    /\ \E db_ok \in BOOLEAN :
         IF db_ok
         THEN /\ sent_newsletters' = update_status(sent_newsletters, loc[p].id, FAILED, NoKw)
              /\ SendReturned(p, "False")
         ELSE /\ sent_newsletters' = sent_newsletters
              /\ SendRaised(p)
    /\ fresh_start' = FALSE
    /\ UNCHANGED <<filterVars, ingestVars, assemblyVars, scrape, database>>
    /\ UNCHANGED <<system_state, jobs, armed_for, clock>>

\* _save_state of the cleared pending id completes or raises (swallowed).
SendSave(p) ==
    /\ pc[p] = "save"
    /\ \E db_ok \in BOOLEAN :
         system_state' = IF db_ok THEN loc[p].state ELSE system_state
    /\ loc' = [loc EXCEPT ![p] = NoLocals]
    /\ pc' = [pc EXCEPT ![p] = "idle"]
    /\ fresh_start' = FALSE
    /\ UNCHANGED <<filterVars, ingestVars, assemblyVars, scrape, database>>
    /\ UNCHANGED <<sent_newsletters, pending_newsletter_id, jobs, armed_for, clock>>

\* ------------------------------------------------- POST /newsletter/send (admin)
\* The endpoint reads the latest PreviewSent row (404 without one, 400
\* without campaign id) and calls mailchimp.send_campaign.
AdminGet ==
    /\ pc["admin"] = "idle"
    /\ LET id == get_pending_newsletter(sent_newsletters) IN
         /\ id # NULL
         /\ sent_newsletters[id].mailchimp_campaign_id # NULL
         /\ loc' = [loc EXCEPT !["admin"] =
                      [NoLocals EXCEPT !.id = id,
                                       !.campaign = sent_newsletters[id].mailchimp_campaign_id]]
    /\ pc' = [pc EXCEPT !["admin"] = "send"]
    /\ fresh_start' = FALSE
    /\ UNCHANGED <<filterVars, ingestVars, assemblyVars, scrape, database>>
    /\ UNCHANGED <<sent_newsletters, system_state, pending_newsletter_id, jobs,
                   armed_for, clock>>

\* send_campaign returns or raises.  After a successful send the endpoint
\* calls update_status(pending.id, "sent", ...) with a plain str, and
\* update_status evaluates status.value, which raises AttributeError before
\* any SQL runs; either way the handler answers 500 and no row is written.
AdminSend ==
    /\ pc["admin"] = "send"
    /\ loc' = [loc EXCEPT !["admin"] = NoLocals]
    /\ pc' = [pc EXCEPT !["admin"] = "idle"]
    /\ fresh_start' = FALSE
    /\ UNCHANGED <<filterVars, ingestVars, assemblyVars, scrape, database>>
    /\ UNCHANGED <<sent_newsletters, system_state, pending_newsletter_id, jobs,
                   armed_for, clock>>

\* ------------------------------------------------------ POST /webhooks/mailchimp
\* A campaign webhook with "emails_sent" for campaign_id: the row of that
\* campaign, if there is one, gets the metrics.
mailchimp_webhook ==
    /\ \E campaign_id \in 1..MaxNewsletters :
         LET id == row_of_campaign(sent_newsletters, campaign_id) IN
         /\ id # NULL
         /\ sent_newsletters' = update_metrics(sent_newsletters, id, 1, 0, 0, clock)
    /\ fresh_start' = FALSE
    /\ UNCHANGED <<filterVars, ingestVars, assemblyVars, scrape, database>>
    /\ UNCHANGED <<system_state, pending_newsletter_id, jobs, armed_for, pc, loc, clock>>

\* ------------------------------------------------------------ process restart
\* lifespan shutdown and startup: in-flight coroutines and the in-memory job
\* store are gone, a new SchedulerService is constructed
\* (_pending_newsletter_id = None) and start() registers the recurring jobs.
\* The database keeps its rows (the schema's INSERT is ON CONFLICT DO NOTHING).
Restart ==
    /\ ~fresh_start
    /\ pending_newsletter_id' = NULL
    /\ jobs' = RecurringJobs
    /\ armed_for' = NULL
    /\ pc' = [p \in Procs |-> "idle"]
    /\ loc' = [p \in Procs |-> NoLocals]
    /\ fresh_start' = TRUE
    /\ UNCHANGED <<filterVars, ingestVars, assemblyVars, scrape, database>>
    /\ UNCHANGED <<sent_newsletters, system_state, clock>>

\* ------------------------------------------------------------- classification
\* The item of the n-th page a source publishes.
NewContent(n) == ScrapedContentCreate("news", <<"https://x.com", "/", ToString(n)>>)

\* ContentRepository.create of a new URL: the row starts Pending.
create ==
    /\ Len(scraped_content) < MaxItems
    /\ scraped_content' =
          insert_on_conflict_do_nothing(scraped_content,
                                        NewContent(Len(scraped_content) + 1)).table
    /\ UNCHANGED <<breaker, run, calls>>
    /\ UNCHANGED <<deliveryVars, ingestVars, window, assemblyVars, scrape, database>>

\* One attempt of make_api_call on call record c: the breaker refuses the
\* call while open (CircuitBreakerError is not a retried type, so
\* filter_content returns the error result); otherwise the request goes out.
attempt(c, b) ==
    IF breaker_opened(b)
    THEN Done("circuit_open", filter_except("CircuitBreakerError"))
    ELSE [c EXCEPT !.st = "in_flight", !.attempts = @ + 1]

\* _run_content_filtering up to batch_filter's gather: the snapshot of
\* pending rows is fetched (with none the job returns) and gather starts
\* one task per item; the semaphore admits the first max_concurrent, which
\* run, one after the other, up to their first await of the classifier.
JobFetch ==
    /\ run["job"].pc = "idle"
    /\ LET pending == get_pending_content(scraped_content, job_limit) IN
         /\ pending # <<>>
         /\ run' = [run EXCEPT !["job"] = [pc |-> "filtering", batch |-> pending, pos |-> 1,
                                            k |-> max_concurrent]]
         /\ calls' = [calls EXCEPT !["job"] =
                        [i \in 1..Len(pending) |->
                            IF i <= max_concurrent THEN attempt(NewCall, breaker) ELSE NewCall]]
    /\ UNCHANGED <<scraped_content, breaker>>
    /\ UNCHANGED <<deliveryVars, ingestVars, window, assemblyVars, scrape, database>>

\* POST /filter/trigger up to background_tasks.add_task(run_filtering):
\* 'skipped' without pending rows.
ApiFetch ==
    /\ run["api"].pc = "idle"
    /\ LET pending == get_pending_content(scraped_content, api_limit) IN
         /\ pending # <<>>
         /\ run' = [run EXCEPT !["api"] = [pc |-> "running", batch |-> pending, pos |-> 1,
                                            k |-> 1]]
         /\ calls' = [calls EXCEPT !["api"] = [i \in 1..Len(pending) |-> NewCall]]
    /\ UNCHANGED <<scraped_content, breaker>>
    /\ UNCHANGED <<deliveryVars, ingestVars, window, assemblyVars, scrape, database>>

\* A task of batch_filter may enter filter_content whenever the batch runs:
\* batch_filter without its semaphore.
MayStartUnbounded(r, i) ==
    IF r = "job"
    THEN run[r].pc \in {"filtering", "raised"}
    ELSE /\ run[r].pc = "running"
         /\ i = run[r].pos

\* Whether position i of pass r may enter filter_content now: a task of
\* batch_filter that waits for the semaphore enters when fewer than
\* max_concurrent (the k of the run) are inside, also after gather raised
\* (it does not cancel the other tasks); run_filtering takes the items one
\* by one.
MayStart(r, i) ==
    IF r = "job"
    THEN /\ run[r].pc \in {"filtering", "raised"}
         /\ Cardinality({j \in DOMAIN calls[r] : calls[r][j].st \in {"in_flight", "backoff"}})
              < run[r].k
    ELSE /\ run[r].pc = "running"
         /\ i = run[r].pos

\* filter_content is entered, or tenacity's sleep before the next attempt ends.
CallAttempt(r, i) ==
    /\ i \in DOMAIN calls[r]
    /\ \/ calls[r][i].st = "new" /\ MayStart(r, i)
       \/ calls[r][i].st = "backoff"
    /\ calls' = [calls EXCEPT ![r][i] = attempt(@, breaker)]
    /\ UNCHANGED <<scraped_content, breaker, run>>
    /\ UNCHANGED <<deliveryVars, ingestVars, window, assemblyVars, scrape, database>>

\* The awaited _call_claude_api of position i of pass r returns or raises
\* with `outcome`: the breaker records it (an exception that is no
\* anthropic.APIError counts as a success), and tenacity retries, or
\* filter_content returns its result or raises.
returned(r, i, outcome) ==
    /\ i \in DOMAIN calls[r]
    /\ calls[r][i].st = "in_flight"
    /\   LET c == calls[r][i] IN
         CASE outcome \in {"approved", "rejected", "pending"} ->
                /\ breaker' = breaker_succeeded(breaker)
                /\ calls' = [calls EXCEPT ![r][i] =
                               Done("response", response_result(outcome))]
           [] outcome = "not_json" ->
                /\ breaker' = breaker_succeeded(breaker)
                /\ calls' = [calls EXCEPT ![r][i] =
                               Done("parse", filter_except("JSONDecodeError"))]
           [] outcome = "no_reason" ->
                /\ breaker' = breaker_succeeded(breaker)
                /\ calls' = [calls EXCEPT ![r][i] =
                               Done("missing_field", filter_except("KeyError"))]
           [] outcome = "bad_decision" ->
                /\ breaker' = breaker_succeeded(breaker)
                /\ calls' = [calls EXCEPT ![r][i] =
                               Done("bad_decision", filter_except("ValueError"))]
           [] outcome = "cancelled" ->
                /\ breaker' = breaker_succeeded(breaker)
                /\ calls' = [calls EXCEPT ![r][i] =
                               Done("cancelled", filter_except("CancelledError"))]
           [] outcome \in {"transient", "api_error"} ->
                /\ breaker' = breaker_failed(breaker)
                /\ calls' = [calls EXCEPT ![r][i] =
                               IF ~retry_if_exception_type(outcome)
                               THEN Done("api_error", filter_except("APIError"))
                               ELSE IF c.attempts < api_retry_attempts
                               THEN [c EXCEPT !.st = "backoff", !.cause = outcome]
                               ELSE Done("retry_exhausted", filter_except("RetryError"))]
    /\ UNCHANGED <<scraped_content, run>>
    /\ UNCHANGED <<deliveryVars, ingestVars, assemblyVars, scrape, database>>

\* The awaited _call_claude_api returns or raises.
CallReturn(r, i) ==
    /\ \E outcome \in ApiOutcomes : returned(r, i, outcome)
    /\ UNCHANGED window

\* recovery_timeout (60 s) passes since the breaker opened (a success may
\* have closed it in the meantime).
CooldownElapses ==
    /\ breaker_opened(breaker) \/ window
    /\ breaker' = IF breaker_opened(breaker) THEN [breaker EXCEPT !.cooled = TRUE] ELSE breaker
    /\ window' = FALSE
    /\ UNCHANGED <<scraped_content, run, calls>>
    /\ UNCHANGED <<deliveryVars, ingestVars, assemblyVars, scrape, database>>

\* The pass wrote its last result and returns.
Advance(r) ==
    IF run[r].pos = Len(run[r].batch)
    THEN /\ run' = [run EXCEPT ![r] = NoRun]
         /\ calls' = [calls EXCEPT ![r] = <<>>]
    ELSE /\ run' = [run EXCEPT ![r].pos = @ + 1]
         /\ calls' = [calls EXCEPT ![r][run[r].pos] = Written]

\* _run_content_filtering after gather returned every result: one
\* update_filter_result per (content, result), in batch order.
JobWrite ==
    /\ run["job"].pc = "filtering"
    /\ \A j \in DOMAIN calls["job"] : calls["job"][j].st \in {"done", "written"}
    /\ scraped_content' = update_filter_result(scraped_content,
                                               run["job"].batch[run["job"].pos],
                                               calls["job"][run["job"].pos].result)
    /\ Advance("job")
    /\ UNCHANGED breaker
    /\ UNCHANGED <<deliveryVars, ingestVars, window, assemblyVars, scrape, database>>

\* _run_content_filtering: the update_filter_result of the next (content,
\* result) raises (the database is unreachable, the connection drops); the
\* exception leaves the for loop, the job's except clause logs it and the
\* pass is over.
JobWriteFails ==
    /\ run["job"].pc = "filtering"
    /\ \A j \in DOMAIN calls["job"] : calls["job"][j].st \in {"done", "written"}
    /\ run' = [run EXCEPT !["job"] = NoRun]
    /\ calls' = [calls EXCEPT !["job"] = <<>>]
    /\ UNCHANGED <<scraped_content, breaker>>
    /\ UNCHANGED <<deliveryVars, ingestVars, window, assemblyVars, scrape, database>>

\* run_filtering: update_filter_result of the item just filtered.
ApiWrite ==
    /\ run["api"].pc = "running"
    /\ calls["api"][run["api"].pos].st = "done"
    /\ scraped_content' = update_filter_result(scraped_content,
                                               run["api"].batch[run["api"].pos],
                                               calls["api"][run["api"].pos].result)
    /\ Advance("api")
    /\ UNCHANGED breaker
    /\ UNCHANGED <<deliveryVars, ingestVars, window, assemblyVars, scrape, database>>

\* ------------------------------------------------------------------ ingestion
\* _store_items builds the ScrapedContentCreate of the next scraped item and
\* create_many awaits ContentRepository.create for it.
store_items(r) ==
    /\ ingest[r].pc = "idle"
    /\ stats.new + stats.duplicate
         + Cardinality({q \in ScrapeRuns : ingest[q].pc = "insert"}) < MaxIngest
    /\ \E source \in Sources, href \in Hrefs :
         ingest' = [ingest EXCEPT ![r] =
                       [pc |-> "insert", content |-> ScrapedContentCreate(source, href)]]
    /\ UNCHANGED <<scraped_content, stats>>
    /\ UNCHANGED <<deliveryVars, breaker, run, calls, window, assemblyVars, scrape, database>>

\* The database runs the INSERT of ContentRepository.create and returns;
\* create_many counts the item as new when an id came back, as duplicate
\* when none did.
create_returns(r) ==
    /\ ingest[r].pc = "insert"
    /\ LET done == insert_on_conflict_do_nothing(scraped_content, ingest[r].content) IN
         /\ scraped_content' = done.table
         /\ stats' = IF done.id # NULL
                     THEN [stats EXCEPT !.new = @ + 1]
                     ELSE [stats EXCEPT !.duplicate = @ + 1]
    /\ ingest' = [ingest EXCEPT ![r] = NoIngest]
    /\ UNCHANGED <<deliveryVars, breaker, run, calls, window, assemblyVars, scrape, database>>

IngestNext ==
    \/ \E r \in ScrapeRuns : store_items(r)
    \/ \E r \in ScrapeRuns : create_returns(r)

\* The scrape runs alone.
SpecIngest == Init /\ [][IngestNext]_vars

\* ---------------------------------------------------------------- batch_filter
\* batch_filter(contents, max_concurrent = k) is called with the pending
\* rows: gather starts one task per item, and the semaphore admits the
\* first k, which run up to their first await of the classifier.
batch_filter ==
    /\ run["job"].pc = "idle"
    /\ \E k \in 1..MaxItems :
         LET contents == get_pending_content(scraped_content, job_limit) IN
         /\ contents # <<>>
         /\ run' = [run EXCEPT !["job"] = [pc |-> "filtering", batch |-> contents, pos |-> 1,
                                            k |-> k]]
         /\ calls' = [calls EXCEPT !["job"] =
                        [i \in 1..Len(contents) |->
                            IF i <= k THEN attempt(NewCall, breaker) ELSE NewCall]]
    /\ UNCHANGED <<scraped_content, breaker>>
    /\ UNCHANGED <<deliveryVars, ingestVars, window, assemblyVars, scrape, database>>

\* The awaited _call_claude_api of a task of the batch returns or raises; a
\* failure that opens the breaker starts its recovery timeout.
TaskReturn(i) ==
    /\ \E outcome \in AnyOutcome : returned("job", i, outcome)
    /\ window' = (window \/ breaker_opened(breaker'))

\* asyncio.gather(*tasks) completes: with the result of every task, in the
\* order of the tasks, once all have returned; with the first exception as
\* soon as a task raises.  batch_filter then logs its summary and returns
\* the results, or raises.
gather ==
    /\ run["job"].pc = "filtering"
    /\ \/ \A i \in DOMAIN calls["job"] : calls["job"][i].st = "done"
       \/ \E i \in DOMAIN calls["job"] : calls["job"][i].result = Raised
    /\ run' = [run EXCEPT !["job"].pc =
                  IF \E i \in DOMAIN calls["job"] : calls["job"][i].result = Raised
                  THEN "raised" ELSE "returned"]
    /\ UNCHANGED <<scraped_content, breaker, calls>>
    /\ UNCHANGED <<deliveryVars, ingestVars, window, assemblyVars, scrape, database>>

\* The caller has taken what batch_filter returned, and every task of the
\* batch has ended.
batch_done ==
    /\ run["job"].pc \in {"returned", "raised"}
    /\ \A i \in DOMAIN calls["job"] : calls["job"][i].st = "done"
    /\ run' = [run EXCEPT !["job"] = NoRun]
    /\ calls' = [calls EXCEPT !["job"] = <<>>]
    /\ UNCHANGED <<scraped_content, breaker>>
    /\ UNCHANGED <<deliveryVars, ingestVars, window, assemblyVars, scrape, database>>

BatchNext ==
    \/ create
    \/ batch_filter
    \/ \E i \in 1..MaxItems : CallAttempt("job", i)
    \/ \E i \in 1..MaxItems : TaskReturn(i)
    \/ CooldownElapses
    \/ gather
    \/ batch_done

\* batch_filter called again and again on the pending rows.
SpecBatch == Init /\ [][BatchNext]_vars

FilterNext ==
    \/ create
    \/ JobFetch
    \/ ApiFetch
    \/ \E r \in Passes, i \in 1..MaxItems : CallAttempt(r, i)
    \/ \E r \in Passes, i \in 1..MaxItems : CallReturn(r, i)
    \/ CooldownElapses
    \/ JobWrite
    \/ ApiWrite

\* The classification passes alone.
SpecFilter == Init /\ [][FilterNext]_vars

\* The scheduled classification pass alone, with a database whose writes
\* may fail.
JobNext ==
    \/ create
    \/ JobFetch
    \/ \E i \in 1..MaxItems : CallAttempt("job", i)
    \/ \E i \in 1..MaxItems : CallReturn("job", i)
    \/ CooldownElapses
    \/ JobWrite
    \/ JobWriteFails

SpecJob == Init /\ [][JobNext]_vars

Next ==
    \/ GenBuild
    \/ GenPreview
    \/ GenSave
    \/ TimerFire
    \/ trigger_newsletter_send
    \/ \E p \in Senders : SendGet(p)
    \/ \E p \in Senders : SendCampaign(p)
    \/ \E p \in Senders : MarkSent(p)
    \/ \E p \in Senders : MarkFailed(p)
    \/ \E p \in Senders : SendSave(p)
    \/ AdminGet
    \/ AdminSend
    \/ mailchimp_webhook
    \/ Restart

Spec == Init /\ [][Next]_vars

\* The scheduled jobs alone (generation and the one-shot auto-send), with
\* the fairness the event loop gives them: an armed timer fires, and every
\* awaited call of a running job returns.
NextAuto ==
    \/ GenBuild
    \/ GenPreview
    \/ GenSave
    \/ TimerFire
    \/ SendGet("timer")
    \/ SendCampaign("timer")
    \/ MarkSent("timer")
    \/ MarkFailed("timer")
    \/ SendSave("timer")

SpecAuto ==
    /\ Init
    /\ [][NextAuto]_vars
    /\ WF_vars(GenPreview)
    /\ WF_vars(GenSave)
    /\ WF_vars(TimerFire)
    /\ WF_vars(SendGet("timer"))
    /\ WF_vars(SendCampaign("timer"))
    /\ WF_vars(MarkSent("timer"))
    /\ WF_vars(MarkFailed("timer"))
    /\ WF_vars(SendSave("timer"))

\* send_newsletter called with any id, on the tables that generation and
\* preview produce.
SendNext ==
    \/ GenBuild
    \/ GenPreview
    \/ GenSave
    \/ \E newsletter_id \in 1..(MaxNewsletters + 1) : send_newsletter(newsletter_id)
    \/ SendGet("caller")
    \/ SendCampaign("caller")
    \/ MarkSent("caller")
    \/ MarkFailed("caller")

SpecSend == Init /\ [][SendNext]_vars

\* ------------------------------------------------------- the jobs, handler by handler
\* The except clause of a job handler (`except Exception as e:
\* logger.exception(...)`): the exception is logged and the handler returns.
handler_reraises(exc) == "job_error"
handler_except(exc) == "logged"

\* APScheduler starts an instance of a registered job unless one is still
\* running (max_instances = 1); a DateTrigger job leaves the job store when
\* it fires.  _send_pending_newsletter returns at once without a pending id.
job_fires(job) ==
    /\ job \in jobs
    /\ pc[job] \in {"idle", "logged"}
    /\ jobs' = IF job = SendJob THEN jobs \ {SendJob} ELSE jobs
    /\ armed_for' = IF job = SendJob THEN NULL ELSE armed_for
    /\ pc' = [pc EXCEPT ![job] =
                 IF job = SendJob /\ pending_newsletter_id = NULL THEN "idle" ELSE "try"]
    /\ fresh_start' = FALSE
    /\ UNCHANGED <<filterVars, ingestVars, assemblyVars, scrape, database>>
    /\ UNCHANGED <<sent_newsletters, system_state, pending_newsletter_id, loc, clock>>

\* The try block of the handler runs to its end: generation previews a new
\* newsletter, stores the pending id and arms the one-shot job (or finds
\* nothing to send); the send marks the pending newsletter Sent and clears
\* the pending id; scraping stores a new item; filtering writes a decision
\* to every pending item.
job_returns(job) ==
    /\ pc[job] = "try"
    /\ pc' = [pc EXCEPT ![job] = "idle"]
    /\ CASE job = "newsletter_generation" ->
              /\ IF Len(sent_newsletters) < MaxNewsletters
                 THEN LET id == Len(sent_newsletters) + 1 IN
                      /\ sent_newsletters' =
                            update_status(Append(sent_newsletters, NewRow), id, PREVIEW_SENT,
                                          [mailchimp_campaign_id |-> id])
                      /\ pending_newsletter_id' = id
                      /\ system_state' = id
                      /\ jobs' = IF auto_send_after_preview THEN jobs \cup {SendJob} ELSE jobs
                      /\ armed_for' = IF auto_send_after_preview THEN id ELSE armed_for
                 ELSE UNCHANGED <<sent_newsletters, pending_newsletter_id, system_state,
                                  jobs, armed_for>>
              /\ UNCHANGED <<clock, scraped_content>>
         [] job = SendJob ->
              /\ sent_newsletters' = update_status(sent_newsletters, pending_newsletter_id,
                                                   SENT, [sent_at |-> clock + 1])
              /\ clock' = clock + 1
              /\ pending_newsletter_id' = NULL
              /\ system_state' = NULL
              /\ UNCHANGED <<jobs, armed_for, scraped_content>>
         [] job = "content_scraping" ->
              /\ scraped_content' =
                    IF Len(scraped_content) < MaxItems
                    THEN insert_on_conflict_do_nothing(
                             scraped_content, NewContent(Len(scraped_content) + 1)).table
                    ELSE scraped_content
              /\ UNCHANGED <<sent_newsletters, pending_newsletter_id, system_state, jobs,
                             armed_for, clock>>
         [] job = "content_filtering" ->
              /\ \E decision \in [DOMAIN scraped_content -> {APPROVED, REJECTED}] :
                    scraped_content' =
                       [i \in DOMAIN scraped_content |->
                           IF scraped_content[i].filter_status = PENDING
                           THEN update_filter_result(scraped_content, i,
                                                     response_result(decision[i]))[i]
                           ELSE scraped_content[i]]
              /\ UNCHANGED <<sent_newsletters, pending_newsletter_id, system_state, jobs,
                             armed_for, clock>>
    /\ fresh_start' = FALSE
    /\ UNCHANGED <<breaker, run, calls, window, ingestVars, loc, assemblyVars, scrape, database>>

\* A call inside the try block raises (the database, Mailchimp, a scraper
\* or the classifier fails): control goes to the except clause.  A failed
\* generation may have inserted its row, which is then Failed.
job_raises(job) ==
    /\ pc[job] = "try"
    /\ pc' = [pc EXCEPT ![job] = "except"]
    /\ IF job = "newsletter_generation" /\ Len(sent_newsletters) < MaxNewsletters
       THEN \E built \in BOOLEAN :
              sent_newsletters' =
                 IF built
                 THEN update_status(Append(sent_newsletters, NewRow),
                                    Len(sent_newsletters) + 1, FAILED, NoKw)
                 ELSE sent_newsletters
       ELSE sent_newsletters' = sent_newsletters
    /\ fresh_start' = FALSE
    /\ UNCHANGED <<filterVars, ingestVars, assemblyVars, scrape, database>>
    /\ UNCHANGED <<system_state, pending_newsletter_id, jobs, armed_for, loc, clock>>

\* The except clause runs.
job_except(job) ==
    /\ pc[job] = "except"
    /\ pc' = [pc EXCEPT ![job] = handler_except("Exception")]
    /\ fresh_start' = FALSE
    /\ UNCHANGED <<filterVars, ingestVars, assemblyVars, scrape, database>>
    /\ UNCHANGED <<sent_newsletters, system_state, pending_newsletter_id, jobs,
                   armed_for, loc, clock>>

SchedulerNext ==
    \/ \E job \in JobIds : job_fires(job)
    \/ \E job \in JobIds : job_returns(job)
    \/ \E job \in JobIds : job_raises(job)
    \/ \E job \in JobIds : job_except(job)

\* The four job handlers as the scheduler sees them.
SpecScheduler == Init /\ [][SchedulerNext]_vars

\* ------------------------------------------------------------ assembly actions
\* The classifier approves a scraped item: county and is_event are what
\* update_filter_result stores from the FilterResult.  These items have a
\* title and content of one length, and the category "event" exactly when
\* they are events.
approve ==
    /\ Len(approved_rows) < MaxContent
    /\ \E county \in {"nash", "wilson"}, is_event \in BOOLEAN :
         approved_rows' = Append(approved_rows,
                                 [county |-> county, is_event |-> is_event,
                                  title |-> "Title",
                                  category |-> IF is_event THEN "event" ELSE "news",
                                  content |-> <<"text">>])
    /\ UNCHANGED <<newsletter_content_links, html_content>>
    /\ UNCHANGED <<deliveryVars, filterVars, ingestVars, scrape, database>>

\* build_newsletter, called by "builder", whose position is what the last
\* call returned.  Without approved content it returns None before it
\* looks at the events; else it selects, generates, creates the Draft row,
\* links every item of approved_content and then every event, and returns
\* the new id.  An exception out of the generator leaves through the
\* except clause, which raises it again, before any row is created.
build_newsletter ==
    /\ \E top_outcome \in GeneratorOutcomes, subject_outcome \in GeneratorOutcomes :
       LET approved_content == get_approved_content(approved_rows, newsletter_content_links)
           events == get_approved_events(approved_rows)
           generated == generate_newsletter_content(approved_rows, approved_content, events,
                                                    top_outcome, subject_outcome)
           newsletter_id == Len(sent_newsletters) + 1
       IN IF approved_content = <<>>
          THEN /\ pc' = [pc EXCEPT !["builder"] = "None"]
               /\ UNCHANGED <<sent_newsletters, html_content, newsletter_content_links>>
          ELSE IF generated.top_story_html = "raised"
          THEN /\ pc' = [pc EXCEPT !["builder"] = "raised"]
               /\ UNCHANGED <<sent_newsletters, html_content, newsletter_content_links>>
          ELSE /\ Len(sent_newsletters) < MaxNewsletters
               /\ pc' = [pc EXCEPT !["builder"] = "newsletter_id"]
               /\ sent_newsletters' = Append(sent_newsletters, NewRow)
               /\ html_content' = [d \in DOMAIN html_content \cup {newsletter_id} |->
                                      IF d = newsletter_id THEN generated ELSE html_content[d]]
               /\ newsletter_content_links' =
                     link_events(
                         link_approved(newsletter_content_links, newsletter_id,
                                       approved_content, generated.top_story, 1),
                         newsletter_id, events, 1)
    /\ fresh_start' = FALSE
    /\ UNCHANGED approved_rows
    /\ UNCHANGED <<system_state, pending_newsletter_id, jobs, armed_for, loc, clock>>
    /\ UNCHANGED <<filterVars, ingestVars, scrape, database>>

\* ------------------------------------------------------------------ run_scrape
\* run_scrape(source_type) starts: fresh stats, and the first source of
\* the kinds it runs.
run_scrape(source_type) ==
    /\ scrape.pc \in {"idle", "returned"}
    /\ scrape' = LET j == next_source(source_type, 0) IN
                 [pc |-> IF j = 0 THEN "record" ELSE "sources",
                  source_type |-> source_type, k |-> j,
                  sub |-> ZeroStats, stats |-> RunStats, last |-> "none"]
    /\ UNCHANGED <<deliveryVars, filterVars, ingestVars, assemblyVars, database>>

\* One pass of the loop of _run_news_scrapers (_run_council_scrapers,
\* _run_social_scrapers) for the source at scrape.k: scrape(), then
\* _store_items for the items if there are any, then the counts; an
\* exception of scrape() or of a create goes to the except clause.
scrape_source ==
    /\ scrape.pc = "sources"
    /\ \E scraped \in {"ok", "scrape_raised"}, items \in ItemLists,
          fail_at \in 0..MaxScraped :
         LET kind == active_sources[scrape.k]
             stored == create_many(scraped_content, contents_of(kind, items), fail_at)
             counted ==
                [scrape EXCEPT
                   !.sub = [sources_scraped |-> @.sources_scraped + 1,
                            items_found |-> @.items_found + Len(items),
                            items_new |-> @.items_new + stored.new,
                            items_duplicate |-> @.items_duplicate + stored.duplicate],
                   !.last = "ok"]
             handled ==
                IF scraped = "scrape_raised" THEN source_except(scrape, "scrape_raised")
                ELSE IF stored.raised THEN source_except(scrape, "store_raised")
                ELSE counted
         IN /\ scraped = "scrape_raised" => (items = <<>> /\ fail_at = 0)
            /\ fail_at <= Len(items)
            /\ scraped_content' = IF scraped = "ok" THEN stored.table ELSE scraped_content
            /\ scrape' = IF handled.pc = "sources" THEN after_source(handled) ELSE handled
    /\ UNCHANGED <<deliveryVars, breaker, run, calls, window, ingestVars, assemblyVars,
                   database>>

\* _record_scrape_run: the INSERT into scrape_runs; when it raises, the
\* except clause of run_scrape is next.
record_scrape_run ==
    /\ scrape.pc = "record"
    /\ \E outcome \in {"ok", "raised"} :
         scrape' = [scrape EXCEPT !.pc = IF outcome = "ok" THEN "returned" ELSE "except"]
    /\ UNCHANGED <<deliveryVars, filterVars, ingestVars, assemblyVars, database>>

\* The except clause of run_scrape: the error is appended to
\* stats["errors"], and run_scrape returns stats.
run_scrape_except ==
    /\ scrape.pc = "except"
    /\ scrape' = [scrape EXCEPT !.pc = "returned", !.stats.errors = @ + 1]
    /\ UNCHANGED <<deliveryVars, filterVars, ingestVars, assemblyVars, database>>

ScrapeNext ==
    \/ \E source_type \in SourceTypes : run_scrape(source_type)
    \/ scrape_source
    \/ record_scrape_run
    \/ run_scrape_except

\* Scrape runs one after the other over the same table.
SpecScrape == Init /\ [][ScrapeNext]_vars

\* ------------------------------------------------------------ Database.connect
\* Database.connect(): returns at once when a pool exists; else one
\* asyncpg.create_pool and the test query.  create_pool raising leaves
\* _pool None, the test query raising leaves the pool assigned; either
\* exception is logged and raised again.
connect ==
    /\ Len(database.attempts) < MaxAttempts
    /\ IF database.pool # "None"
       THEN database' = [database EXCEPT !.result = "returned"]
       ELSE \E outcome \in PoolOutcomes :
              database' =
                 [pool |-> IF outcome = "refused" THEN "None" ELSE "pool",
                  attempts |-> Append(database.attempts, outcome),
                  result |-> IF outcome = "ok" THEN "returned" ELSE "raised"]
    /\ UNCHANGED <<deliveryVars, filterVars, ingestVars, assemblyVars, scrape>>

\* Database.disconnect(): closes the pool when there is one.
disconnect ==
    /\ database' = [database EXCEPT !.pool = "None", !.result = "returned"]
    /\ UNCHANGED <<deliveryVars, filterVars, ingestVars, assemblyVars, scrape>>

ConnectNext ==
    \/ connect
    \/ disconnect

\* The process connects and disconnects its Database.
SpecConnect == Init /\ [][ConnectNext]_vars

\* ------------------------------------------------------------- delivery metrics
\* A row of sent_newsletters with the columns update_metrics and
\* update_status write, as NewsletterRepository.create and the delivery
\* steps leave it in the given status at time `now`.
FullRow(status, id, now) ==
    [status |-> status,
     mailchimp_campaign_id |-> IF status = DRAFT THEN NULL ELSE id,
     preview_sent_at |-> IF status \in {PREVIEW_SENT, SENT} THEN now ELSE NULL,
     sent_at |-> IF status = SENT THEN now ELSE NULL,
     recipients_count |-> 0, opens_count |-> 0, clicks_count |-> 0,
     updated_at |-> now]

\* A newsletter reaches one of its statuses.
newsletter_in_status ==
    /\ Len(sent_newsletters) < MaxNewsletters
    /\ \E status \in {DRAFT, PREVIEW_SENT, SENT, FAILED} :
         sent_newsletters' =
            Append(sent_newsletters, FullRow(status, Len(sent_newsletters) + 1, clock))
    /\ fresh_start' = FALSE
    /\ UNCHANGED <<system_state, pending_newsletter_id, jobs, armed_for, pc, loc, clock>>
    /\ UNCHANGED <<filterVars, ingestVars, assemblyVars, scrape, database>>

\* mailchimp_webhook for a campaign event that carries "emails_sent": the
\* row of the campaign gets the three counts; NOW() has moved on since the
\* last write.
mailchimp_campaign_webhook ==
    /\ clock < MaxWebhooks
    /\ \E campaign_id \in 1..MaxNewsletters, emails_sent \in {0, 5},
          unique_opens \in {0, 3}, clicks \in {0, 1} :
         LET id == row_of_campaign(sent_newsletters, campaign_id) IN
         /\ id # NULL
         /\ sent_newsletters' = update_metrics(sent_newsletters, id, emails_sent,
                                               unique_opens, clicks, clock + 1)
    /\ clock' = clock + 1
    /\ fresh_start' = FALSE
    /\ UNCHANGED <<system_state, pending_newsletter_id, jobs, armed_for, pc, loc>>
    /\ UNCHANGED <<filterVars, ingestVars, assemblyVars, scrape, database>>

MetricsNext ==
    \/ newsletter_in_status
    \/ mailchimp_campaign_webhook

\* Campaign webhooks on newsletters in every status.
SpecMetrics == Init /\ [][MetricsNext]_vars

\* ----------------------------------------------------------- top story selection
\* The values of content_category: those of priority_order and one that is
\* not in it.
Categories == {"event", "announcement", "news", "promotion", "government", "other", "opinion"}

\* An approved item of any title, category and content length arrives.
approve_any ==
    /\ Len(approved_rows) < MaxContent
    /\ \E title \in {"", "Title"}, category \in Categories,
          content \in {<<"text">>, <<"longer", "text">>} :
         approved_rows' = Append(approved_rows,
                                 [county |-> "nash", is_event |-> FALSE, title |-> title,
                                  category |-> category, content |-> content])
    /\ pc' = [pc EXCEPT !["builder"] = "idle"]
    /\ loc' = [loc EXCEPT !["builder"] = NoLocals]
    /\ UNCHANGED <<newsletter_content_links, html_content>>
    /\ UNCHANGED <<sent_newsletters, system_state, pending_newsletter_id, jobs,
                   armed_for, clock, fresh_start>>
    /\ UNCHANGED <<filterVars, ingestVars, scrape, database>>

\* generate_newsletter_content calls _select_top_story(approved_content):
\* "builder" holds the id of the item returned (NULL for None).
top_story_selected ==
    /\ pc["builder"] = "idle"
    /\ pc' = [pc EXCEPT !["builder"] = "selected"]
    /\ loc' = [loc EXCEPT !["builder"].id =
                  select_top_story(approved_rows,
                                   get_approved_content(approved_rows,
                                                        newsletter_content_links))]
    /\ UNCHANGED <<deliveryVars_but_pc_loc, filterVars, ingestVars, assemblyVars, scrape, database>>

TopStoryNext ==
    \/ approve_any
    \/ top_story_selected

\* _select_top_story on every list of up to MaxContent items.
SpecTopStory == Init /\ [][TopStoryNext]_vars

AssemblyNext ==
    \/ approve
    \/ build_newsletter

\* Approvals and newsletter builds alone.
SpecAssembly == Init /\ [][AssemblyNext]_vars

\* build_and_send_preview for the Draft newsletter d fails at Mailchimp: its
\* except clause writes the status Failed and raises; the rows of
\* newsletter_content_links that build_newsletter wrote for d stay.
preview_failed(d) ==
    /\ d \in DOMAIN sent_newsletters
    /\ sent_newsletters[d].status = DRAFT
    /\ sent_newsletters' = update_status(sent_newsletters, d, FAILED, NoKw)
    /\ pc' = [pc EXCEPT !["builder"] = "raised"]
    /\ fresh_start' = FALSE
    /\ UNCHANGED <<system_state, pending_newsletter_id, jobs, armed_for, loc, clock>>
    /\ UNCHANGED <<filterVars, ingestVars, assemblyVars, scrape, database>>

RetryNext ==
    \/ approve
    \/ build_newsletter
    \/ \E d \in 1..MaxNewsletters : preview_failed(d)

\* Approvals, builds, and previews that fail.
SpecRetry == Init /\ [][RetryNext]_vars

\* ===================================================================== claims
Newsletters == 1..MaxNewsletters
Exists(d) == d \in DOMAIN sent_newsletters
StatusOf(d) == sent_newsletters[d].status

\* Coroutine p issues mailchimp.send_campaign for newsletter d in this step.
IssuesSend(p, d) == pc[p] # "send" /\ pc'[p] = "send" /\ loc'[p].id = d

\* A _save_state UPDATE is awaited by some coroutine.
SaveInProgress == \E p \in Procs : pc[p] = "save"

\* C1: across the timer-fired send, trigger_newsletter_send and the admin
\* endpoint, each newsletter's status is written to Sent at most once: a
\* step that writes sent_at finds it null.
C1_SentWrittenAtMostOnce ==
    [][\A d \in Newsletters :
         (Exists(d) /\ sent_newsletters'[d].sent_at # sent_newsletters[d].sent_at)
            => sent_newsletters[d].sent_at = NULL]_vars

\* C2: Sent is terminal: once a newsletter is Sent, no step changes its
\* status or its sent timestamp.
C2_SentIsTerminal ==
    [][\A d \in Newsletters :
         (Exists(d) /\ StatusOf(d) = SENT)
            => /\ sent_newsletters'[d].status = SENT
               /\ sent_newsletters'[d].sent_at = sent_newsletters[d].sent_at]_vars

\* C3: Failed is terminal: once a newsletter is Failed, no step changes its
\* status and no send is issued to the email collaborator for its campaign.
C3_FailedIsTerminal ==
    [][\A d \in Newsletters :
         (Exists(d) /\ StatusOf(d) = FAILED)
            => /\ sent_newsletters'[d].status = FAILED
               /\ \A p \in Procs : ~IssuesSend(p, d)]_vars

\* C4: once a content item is Approved or Rejected, no later classification
\* write changes its status.
C4_DecisionIsFinal ==
    [][\A id \in DOMAIN scraped_content :
         scraped_content[id].filter_status \in {APPROVED, REJECTED}
            => scraped_content'[id].filter_status = scraped_content[id].filter_status]_vars

\* A text contains the word `error`, whatever its case and punctuation.
IsErrorWord(t) == t \in {"error", "Error", "ERROR", "error:", "Error:"}
HasErrorWord(text) == \E k \in DOMAIN text : IsErrorWord(text[k])

AllCalls == {<<r, i>> : r \in Passes, i \in 1..MaxItems}
CallOf(ri) == calls[ri[1]][ri[2]]
Resolved(ri) == ri[2] \in DOMAIN calls[ri[1]] /\ CallOf(ri).st = "done"

\* C5: filter_content never raises and returns a result: when every retry
\* attempt failed with a transient error, when the call failed with another
\* API error, and when the open breaker refused the call, the decision is
\* Rejected and the reason contains the word 'error'.
C5_FailuresAreRejectedWithError ==
    \A ri \in AllCalls :
        Resolved(ri) =>
            /\ CallOf(ri).result # Raised
            /\ CallOf(ri).cause \in {"retry_exhausted", "api_error", "circuit_open"}
                 => /\ CallOf(ri).result.decision = REJECTED
                    /\ HasErrorWord(CallOf(ri).result.reason)

\* C5 witness: calls resolved by each of the three failures, at once.
C5_Witness ==
    \A cause \in {"retry_exhausted", "api_error", "circuit_open"} :
        \E ri \in AllCalls : Resolved(ri) /\ CallOf(ri).cause = cause

\* C6: after a restart, get_pending_newsletter_id() returns the pending id
\* the system_state row holds.
C6_RestartRestoresPendingId ==
    fresh_start => get_pending_newsletter_id = system_state

\* C7: whenever the one-shot auto-send job is armed for newsletter d, the
\* system_state row holds pending id d.
C7_PersistedBeforeArmed ==
    SendJob \in jobs => system_state = armed_for

\* C8: whenever no _save_state is in progress, the in-memory pending id
\* equals the pending id of the system_state row.
C8_MemoryEqualsDurable ==
    ~SaveInProgress => pending_newsletter_id = system_state

\* C9: when a run of _send_pending_newsletter that had a pending id ends
\* (send_newsletter returned True or False, or raised), the pending id is
\* null in memory and in the system_state row.
C9_PendingClearedAfterSend ==
    [][\A p \in Senders :
         (pc[p] # "idle" /\ pc'[p] = "idle" /\ ~fresh_start')
            => (pending_newsletter_id' = NULL /\ system_state' = NULL)]_vars

\* C10: with auto-send on, every newsletter the generation job moved to
\* PreviewSent eventually is Sent or Failed, by the scheduled jobs alone.
C10_PreviewedIsEventuallySentOrFailed ==
    \A d \in Newsletters :
        (Exists(d) /\ StatusOf(d) = PREVIEW_SENT)
            ~> (Exists(d) /\ StatusOf(d) \in {SENT, FAILED})

\* C11: after a restart with a PreviewSent newsletter whose id is the
\* pending id of the system_state row, start-up has reloaded that id and
\* the one-shot auto-send job is armed for it again.
C11_RestartRearmsAutoSend ==
    (/\ fresh_start
     /\ system_state # NULL
     /\ Exists(system_state)
     /\ StatusOf(system_state) = PREVIEW_SENT)
        => (/\ pending_newsletter_id = system_state
            /\ SendJob \in jobs
            /\ armed_for = system_state)

\* The page and the parameters of a URL that identify the content: the
\* text before "?" without trailing "/", and the query parameters other
\* than utm_*, fbclid, gclid, ref and source.
IsTrackingParam(param) ==
    param # <<>> /\ param[1] \in {"utm_source=fb", "fbclid=z"}
KeptParams(params) ==
    SelectSeq(params, LAMBDA param : ~IsTrackingParam(param))
Canonical(url) ==
    LET q == find(url, "?") IN
    [page |-> rstrip(IF q = 0 THEN url ELSE SubSeq(url, 1, q - 1), "/"),
     params |-> IF q = 0 THEN <<>>
                ELSE KeptParams(split(SubSeq(url, q + 1, Len(url)), "&"))]

\* Scrape run r completes its create call in this step.
CreateReturns(r) == ingest[r].pc = "insert" /\ ingest'[r].pc = "idle"

\* C12: for every interleaving of create calls, each call is counted as new
\* or as duplicate; it is new exactly when no row had its url_hash, and then
\* its row is added; otherwise the table is unchanged; no row is ever
\* changed or removed, and no two rows have the same url_hash.
C12_OneRowPerFingerprint ==
    [][/\ \A r \in ScrapeRuns :
            CreateReturns(r) =>
               LET had == \E i \in DOMAIN scraped_content :
                              scraped_content[i].url_hash = ingest[r].content.url_hash
               IN /\ stats'.new + stats'.duplicate = stats.new + stats.duplicate + 1
                  /\ had => (stats'.duplicate = stats.duplicate + 1
                               /\ scraped_content' = scraped_content)
                  /\ ~had => (stats'.new = stats.new + 1
                                /\ scraped_content' = Append(scraped_content, ingest[r].content))
       /\ \A i \in DOMAIN scraped_content :
            /\ i \in DOMAIN scraped_content'
            /\ scraped_content'[i] = scraped_content[i]
       /\ \A i, j \in DOMAIN scraped_content' :
            scraped_content'[i].url_hash = scraped_content'[j].url_hash => i = j
       /\ stats'.new = Len(scraped_content')]_vars

\* C12 witness: two scrape runs awaited create for the same url_hash at the
\* same time; one was counted new, the other duplicate, and one row exists.
C12_Witness ==
    /\ stats.new = 1
    /\ stats.duplicate >= 1
    /\ Len(scraped_content) = 1
    /\ \E r \in ScrapeRuns :
         /\ ingest[r].pc = "insert"
         /\ ingest[r].content.url_hash = scraped_content[1].url_hash
         /\ ingest[r].content.source_type # scraped_content[1].source_type

\* C13: two URLs that differ only in tracking parameters or in a trailing
\* slash get the same url_hash at ingestion, so no two rows hold such URLs.
C13_TrackingVariantsAreDuplicates ==
    \A i, j \in DOMAIN scraped_content :
        Canonical(scraped_content[i].url) = Canonical(scraped_content[j].url) => i = j

\* ---------------------------------------------------------- batch_filter claims
JobCalls == calls["job"]
JobBatch == run["job"].batch
\* In this step the classifier is invoked for position i of the batch.
Invoked(i) ==
    /\ i \in DOMAIN calls'["job"]
    /\ calls'["job"][i].st = "in_flight"
    /\ i \in DOMAIN JobCalls => JobCalls[i].st # "in_flight"
InFlight == {i \in DOMAIN JobCalls : JobCalls[i].st = "in_flight"}
approved == Cardinality({i \in DOMAIN JobCalls : JobCalls[i].result.decision = APPROVED})
rejected == Cardinality({i \in DOMAIN JobCalls : JobCalls[i].result.decision = REJECTED})

\* C16: for one item the classifier is invoked at most api_retry_attempts
\* times: an invocation is the first of a task, or follows an attempt that
\* failed with a rate-limit, connection or internal-server error, and it is
\* never made for a task that has its result (a response, a non-transient
\* API error, a circuit-open rejection).
C16_RetryOnlyAfterTransientError ==
    [][\A i \in 1..MaxItems :
         Invoked(i) =>
           /\ calls'["job"][i].attempts <= api_retry_attempts
           /\ \/ /\ calls'["job"][i].attempts = 1
                 /\ i \in DOMAIN JobCalls => JobCalls[i].st = "new"
              \/ /\ i \in DOMAIN JobCalls
                 /\ JobCalls[i].st = "backoff"
                 /\ JobCalls[i].cause = "transient"
                 /\ calls'["job"][i].attempts = JobCalls[i].attempts + 1]_vars

\* The last permitted attempt of an item is in flight, after two transient
\* failures.
C16_Witness ==
    \E i \in DOMAIN JobCalls :
        /\ JobCalls[i].st = "in_flight"
        /\ JobCalls[i].attempts = api_retry_attempts
        /\ JobCalls[i].cause = "transient"

\* C17: while batch_filter(items, max_concurrent = k) runs, at most k
\* classifier calls are in flight.
C17_AtMostKInFlight ==
    run["job"].pc \in {"filtering", "raised"} => Cardinality(InFlight) <= run["job"].k

\* k calls are in flight and a further task of the batch waits for the
\* semaphore.
C17_Witness ==
    /\ run["job"].pc = "filtering"
    /\ run["job"].k < Len(JobBatch)
    /\ Cardinality(InFlight) = run["job"].k
    /\ \E i \in DOMAIN JobCalls : JobCalls[i].st = "new"

\* C18: when batch_filter returns, every item has resolved, there is one
\* result per input item, and the approved and the rejected results together
\* are as many as the input items.
C18_ApprovedPlusRejectedIsAll ==
    run["job"].pc = "returned" =>
        /\ Len(JobCalls) = Len(JobBatch)
        /\ \A i \in DOMAIN JobCalls : JobCalls[i].st = "done"
        /\ approved + rejected = Len(JobBatch)

\* C19: batch_filter of several items ends by returning one result per
\* input item, whatever happened to the single items: it never ends by
\* raising the error of one of them.
C19_BatchContinuesAfterFailure ==
    (run["job"].pc \in {"returned", "raised"} /\ Len(JobBatch) > 1) =>
        /\ run["job"].pc = "returned"
        /\ Len(JobCalls) = Len(JobBatch)
        /\ \A i \in DOMAIN JobCalls :
               JobCalls[i].st = "done" /\ JobCalls[i].result # Raised

\* ------------------------------------------------------- scheduled pass claims
\* The scheduled pass ends in this step.
JobPassEnds == run["job"].pc = "filtering" /\ run'["job"].pc = "idle"
\* The positions of the pass's batch whose row has no decision after the step.
LeftPending ==
    {i \in 1..Len(JobBatch) :
        scraped_content'[JobBatch[i]].filter_status \notin {APPROVED, REJECTED}}

\* C20: when a scheduled classification pass ends, every item of the fetched
\* batch is Approved or Rejected, except the one item (if any) whose
\* decision could not be written.
C20_WriteFailureSparesTheOthers ==
    [][JobPassEnds => Cardinality(LeftPending) <= 1]_vars

\* ------------------------------------------------------ circuit breaker claims
\* C14: from the failure that opens the breaker (the fifth in a row) until
\* the recovery timeout has passed, no call of a batch invokes the
\* classifier: each is refused at once.
C14_NoInvocationBeforeCooldown ==
    [][window => \A i \in 1..MaxItems : ~Invoked(i)]_vars

\* C15: while the breaker is open with its recovery timeout over, a step
\* lets at most one call through to the classifier.
C15_OneProbeAfterCooldown ==
    [][breaker.state = "open" =>
         Cardinality({i \in 1..MaxItems : Invoked(i)}) <= 1]_vars

\* ------------------------------------------------------ response schema claims
\* A text contains 'parse error'.
HasParseError(text) ==
    \E k \in DOMAIN text :
        /\ text[k] \in {"parse", "Parse"}
        /\ k + 1 \in DOMAIN text
        /\ IsErrorWord(text[k + 1])
\* filter_content returned for a response that does not match the schema: it
\* was no JSON, lacked a required key, or decided neither approved nor rejected.
SchemaMismatch(c) ==
    /\ c.st = "done"
    /\ \/ c.cause \in {"parse", "missing_field", "bad_decision"}
       \/ c.cause = "response" /\ c.result.decision \notin {APPROVED, REJECTED}

\* C21: an item whose classifier response does not match the schema is
\* Rejected with a reason that contains 'parse error'.
C21_SchemaMismatchIsParseError ==
    \A i \in DOMAIN JobCalls :
        SchemaMismatch(JobCalls[i]) =>
            /\ JobCalls[i].result.decision = REJECTED
            /\ HasParseError(JobCalls[i].result.reason)

\* ------------------------------------------------------------ campaign id claims
\* C22: a newsletter that is PreviewSent or Sent has a campaign id, and a
\* campaign id, once set, is neither cleared nor replaced by any later
\* write to the row (status update, metrics update).
C22_CampaignIdSetAndKept ==
    /\ [](\A d \in Newsletters :
            (Exists(d) /\ StatusOf(d) \in {PREVIEW_SENT, SENT})
                => sent_newsletters[d].mailchimp_campaign_id # NULL)
    /\ [][\A d \in Newsletters :
            (Exists(d) /\ sent_newsletters[d].mailchimp_campaign_id # NULL)
                => sent_newsletters'[d].mailchimp_campaign_id
                     = sent_newsletters[d].mailchimp_campaign_id]_vars

\* A newsletter is Sent, still with its campaign id, and a webhook has
\* written its metrics.
C22_Witness ==
    \E d \in Newsletters :
        /\ Exists(d)
        /\ StatusOf(d) = SENT
        /\ sent_newsletters[d].mailchimp_campaign_id # NULL
        /\ sent_newsletters[d].recipients_count # 0

\* --------------------------------------------------------- failed preview claims
\* In this step build_and_send_preview for newsletter d ends with an
\* exception: the step is over and d is not PreviewSent.
PreviewFails(d) ==
    /\ pc["gen"] = "preview"
    /\ loc["gen"].id = d
    /\ pc'["gen"] # "preview"
    /\ ~fresh_start'
    /\ sent_newsletters'[d].status # PREVIEW_SENT
\* In this step build_and_send_preview starts to work on newsletter d.
PreviewStarts(d) ==
    /\ pc["gen"] # "preview"
    /\ pc'["gen"] = "preview"
    /\ loc'["gen"].id = d
\* After the step no auto-send job is armed for d and d is not pending.
NotArmedNotPending(d) ==
    /\ armed_for' # d
    /\ SendJob \in jobs' => SendJob \in jobs
    /\ pending_newsletter_id' # d
    /\ sent_newsletters'[d].mailchimp_campaign_id = NULL

\* C23 as stated: when the preview step of newsletter d fails, d becomes
\* Failed, no auto-send job is armed for it and it does not become the
\* pending newsletter; the step runs once per newsletter.
C23_FailedPreviewMarksFailed ==
    [][\A d \in Newsletters :
         /\ PreviewFails(d) => (sent_newsletters'[d].status = FAILED /\ NotArmedNotPending(d))
         /\ PreviewStarts(d) => ~Exists(d)]_vars

\* C23 as amended: when the preview step of newsletter d fails, d becomes
\* Failed, or stays Draft when the write of Failed fails as well; no
\* auto-send job is armed for it and it does not become the pending
\* newsletter; the step runs once per newsletter.
C23_FailedPreviewIsFailedOrDraft ==
    [][\A d \in Newsletters :
         /\ PreviewFails(d) =>
               (sent_newsletters'[d].status \in {FAILED, DRAFT} /\ NotArmedNotPending(d))
         /\ PreviewStarts(d) => ~Exists(d)]_vars

\* A preview failed and its newsletter is Failed, without campaign, not
\* pending and not armed, while the generation job is idle again.
C23_Witness ==
    \E d \in Newsletters :
        /\ Exists(d)
        /\ StatusOf(d) = FAILED
        /\ sent_newsletters[d].mailchimp_campaign_id = NULL
        /\ pc["gen"] = "idle"
        /\ pending_newsletter_id # d
        /\ armed_for # d

\* ------------------------------------------------- send without campaign claims
\* Coroutine p is inside send_newsletter for a newsletter that does not
\* exist or has no campaign id.
NoCampaign(p) ==
    \/ loc[p].id \notin DOMAIN sent_newsletters
    \/ sent_newsletters[loc[p].id].mailchimp_campaign_id = NULL

\* C24: send_newsletter for a newsletter that does not exist or has no
\* campaign id reports failure (it returns False, or raises when get_by_id
\* raises), calls no send_campaign, creates no campaign and writes no row.
C24_NoCampaignNoSend ==
    [][(pc["caller"] = "get" /\ pc'["caller"] # "get" /\ NoCampaign("caller"))
          => /\ pc'["caller"] \in {"False", "raised"}
             /\ sent_newsletters' = sent_newsletters]_vars

\* send_newsletter returned False for a Draft or Failed newsletter without
\* campaign id, and the row is as it was.
C24_Witness ==
    /\ pc["caller"] = "False"
    /\ loc["caller"].id \in DOMAIN sent_newsletters
    /\ sent_newsletters[loc["caller"].id].mailchimp_campaign_id = NULL
    /\ sent_newsletters[loc["caller"].id].status \in {DRAFT, FAILED}

\* ------------------------------------------------------------ status path claims
CampaignOf(d) == sent_newsletters[d].mailchimp_campaign_id

\* C25: every Sent newsletter was PreviewSent earlier and none goes from
\* Draft to Sent: a row starts as Draft without campaign id, gets its
\* campaign id only in the step that takes it from Draft to PreviewSent, is
\* never written Sent while it is Draft, and is never Sent without a
\* campaign id.
C25_SentWasPreviewed ==
    /\ [](\A d \in Newsletters : (Exists(d) /\ StatusOf(d) = SENT) => CampaignOf(d) # NULL)
    /\ [][\A d \in DOMAIN sent_newsletters' :
            /\ d \notin DOMAIN sent_newsletters
                  => (sent_newsletters'[d].status = DRAFT
                      /\ sent_newsletters'[d].mailchimp_campaign_id = NULL)
            /\ (d \in DOMAIN sent_newsletters /\ CampaignOf(d) = NULL
                   /\ sent_newsletters'[d].mailchimp_campaign_id # NULL)
                  => (StatusOf(d) = DRAFT /\ sent_newsletters'[d].status = PREVIEW_SENT)
            /\ (d \in DOMAIN sent_newsletters /\ StatusOf(d) = DRAFT)
                  => sent_newsletters'[d].status # SENT]_vars

\* send_newsletter returned True for a newsletter, which is Sent.
C25_Witness ==
    /\ pc["caller"] = "True"
    /\ loc["caller"].id \in DOMAIN sent_newsletters
    /\ StatusOf(loc["caller"].id) = SENT

\* --------------------------------------------------------- manual trigger claims
\* The manual trigger's send of newsletter d is under way.
ManualSending(d) == pc["manual"] \in {"get", "send", "mark_sent", "mark_failed"} /\ loc["manual"].id = d

\* C26: trigger_newsletter_send with a pending id removes the one-shot job
\* and starts the send at once; while and after the manual send of
\* newsletter d runs, the timer's coroutine issues no send_campaign for d,
\* also when it was already running when the trigger arrived.
C26_ManualTriggerPreemptsTimer ==
    [][/\ (pc["manual"] = "idle" /\ pc'["manual"] # "idle")
            => (SendJob \notin jobs' /\ armed_for' = NULL /\ pc'["manual"] = "get"
                /\ loc'["manual"].id = pending_newsletter_id)
       /\ \A d \in Newsletters : ManualSending(d) => ~IssuesSend("timer", d)]_vars

\* ------------------------------------------------------------ job handler claims
\* C27: an exception raised inside a scheduled job is caught by the job's
\* handler: from its except clause the handler returns, no job instance
\* ends with an error at the scheduler, the job store is not touched, the
\* three recurring jobs stay registered, and a recurring job whose instance
\* has ended can fire again.
C27_JobExceptionsAreCaught ==
    /\ [](/\ RecurringJobs \subseteq jobs
          /\ \A job \in JobIds : pc[job] \in {"idle", "try", "except", "logged"}
          /\ \A job \in RecurringJobs :
                pc[job] \in {"idle", "logged"} => ENABLED job_fires(job))
    /\ [][\A job \in JobIds :
            (pc[job] = "except" /\ pc'[job] # "except")
                => (pc'[job] = "logged" /\ jobs' = jobs)]_vars

\* Every recurring job has raised and logged its exception in its last
\* run; one of them is running again.
C27_Witness ==
    \E job \in RecurringJobs :
        /\ pc[job] = "try"
        /\ \A other \in RecurringJobs \ {job} : pc[other] = "logged"
        /\ RecurringJobs \subseteq jobs

\* ---------------------------------------------------------------- link claims
Built == DOMAIN html_content
LinksOf(d) == {l \in newsletter_content_links : l.newsletter_id = d}
\* The items the HTML of newsletter d shows in its three sections.
Rendered(d) ==
    <<html_content[d].top_story>> \o html_content[d].news_links \o html_content[d].calendar
Included(d) == {Rendered(d)[k] : k \in DOMAIN Rendered(d)}
Sections == {"top_story", "news_links", "calendar"}

\* C28: for every newsletter the number of its rows in
\* newsletter_content_links equals the number of items rendered in its
\* top story, news links and calendar sections together.
C28_LinksEqualRenderedItems ==
    \A d \in Built : Cardinality(LinksOf(d)) = Len(Rendered(d))

\* C29: every item included in a newsletter has exactly one link row for
\* that newsletter, its section is one of the three, and no (newsletter,
\* item) pair has two rows; an item that is both in approved_content and an
\* upcoming event appears in one section of the newsletter only.
C29_OneLinkOneSection ==
    \A d \in Built :
        /\ \A i \in Included(d) :
              Cardinality({l \in LinksOf(d) : l.content_id = i}) = 1
        /\ \A l \in LinksOf(d) : l.section \in Sections
        /\ \A l, m \in LinksOf(d) : l.content_id = m.content_id => l = m
        /\ \A j, k \in DOMAIN Rendered(d) : Rendered(d)[j] = Rendered(d)[k] => j = k

\* C30: no content item is linked to two different newsletters, events
\* of the calendar included.
C30_LinkedToOneNewsletter ==
    \A l, m \in newsletter_content_links :
        l.content_id = m.content_id => l.newsletter_id = m.newsletter_id

\* --------------------------------------------------------- eligible pool claims
\* The pool of the claim: the approved items of the lookback window with no
\* link, together with the approved events dated inside the horizon.
EligiblePool ==
    {i \in DOMAIN approved_rows : ~ \E l \in newsletter_content_links : l.content_id = i}
      \cup {i \in DOMAIN approved_rows : approved_rows[i].is_event}

\* A call of build_newsletter returns in this step.
BuildReturns ==
    \/ pc'["builder"] # pc["builder"]
    \/ Len(sent_newsletters') > Len(sent_newsletters)

\* C31: build_newsletter returns None, with no row and no link created,
\* exactly when the eligible pool is empty; with only upcoming events in
\* the pool a newsletter is still built.
C31_NoneIffPoolEmpty ==
    [][BuildReturns =>
         /\ (pc'["builder"] = "None") <=> (EligiblePool = {})
         /\ pc'["builder"] = "None" =>
               (sent_newsletters' = sent_newsletters
                /\ newsletter_content_links' = newsletter_content_links)
         /\ EligiblePool # {} => Len(sent_newsletters') = Len(sent_newsletters) + 1]_vars

\* ------------------------------------------------------------- top story claims
\* The rank the claim gives a category: event > announcement > news >
\* promotion > government > other, any other category last.
Rank(category) ==
    CASE category = "event" -> 1
      [] category = "announcement" -> 2
      [] category = "news" -> 3
      [] category = "promotion" -> 4
      [] category = "government" -> 5
      [] category = "other" -> 6
      [] OTHER -> 7

\* Item a comes before item b under the claim's key: titled before
\* untitled, then the better category, then the longer content.
Before(a, b) ==
    \/ a.title # "" /\ b.title = ""
    \/ (a.title = "") = (b.title = "") /\ Rank(a.category) < Rank(b.category)
    \/ (a.title = "") = (b.title = "") /\ Rank(a.category) = Rank(b.category)
         /\ Len(a.content) > Len(b.content)

\* The candidates in input order.
Candidates == get_approved_content(approved_rows, newsletter_content_links)

\* The candidate the claim names: minimal under the key, the earliest of
\* the input among equals; NULL without candidates.
Minimal ==
    IF Candidates = <<>> THEN NULL
    ELSE LET k == CHOOSE k \in DOMAIN Candidates :
                    /\ \A j \in DOMAIN Candidates :
                          ~ Before(approved_rows[Candidates[j]], approved_rows[Candidates[k]])
                    /\ \A j \in 1..(k - 1) :
                          Before(approved_rows[Candidates[k]], approved_rows[Candidates[j]])
         IN Candidates[k]

\* C32: _select_top_story returns None for an empty list and else the
\* candidate minimal under the key, the earliest in input order among
\* equals; the same input gives the same result.
C32_TopStoryIsMinimal ==
    pc["builder"] = "selected" => loc["builder"].id = Minimal

\* The selection went to a candidate that is not the first of the input
\* and that ties with a later one.
C32_Witness ==
    /\ pc["builder"] = "selected"
    /\ Len(Candidates) = MaxContent
    /\ loc["builder"].id = Candidates[2]
    /\ score(approved_rows[Candidates[2]]) = score(approved_rows[Candidates[3]])

\* ------------------------------------------------------- generator failure claims
\* C33: a failing generator does not stop the assembly: build_newsletter
\* never raises because of it, the newsletter has its row, a failed
\* subject call leaves the default subject and a failed top-story call the
\* item's summary, and each of the two calls was made once.
C33_GeneratorFailureFallsBack ==
    /\ pc["builder"] # "raised"
    /\ \A d \in Built :
          /\ d \in DOMAIN sent_newsletters
          /\ html_content[d].generator.top_story = "failed"
                => html_content[d].top_story_html = "summary"
          /\ html_content[d].generator.subject = "failed"
                => html_content[d].subject_line = default_subject
          /\ html_content[d].generator.calls = 2

\* A newsletter was built although both generator calls failed.
C33_Witness ==
    \E d \in Built :
        /\ d \in DOMAIN sent_newsletters
        /\ html_content[d].generator.top_story = "failed"
        /\ html_content[d].generator.subject = "failed"
        /\ html_content[d].top_story_html = "summary"
        /\ html_content[d].subject_line = default_subject

\* A campaign webhook has written metrics in this step.
MetricsWritten == clock' # clock

MetricColumns == {"recipients_count", "opens_count", "clicks_count"}

\* The rows agree on every column outside `columns`.
SameOutside(columns, before, after) ==
    /\ DOMAIN after = DOMAIN before
    /\ \A c \in DOMAIN before \ columns : after[c] = before[c]

\* The step writes columns of `columns` of one row and nothing else.
WritesOnly(columns) ==
    /\ Len(sent_newsletters') = Len(sent_newsletters)
    /\ \E d \in DOMAIN sent_newsletters :
         /\ SameOutside(columns, sent_newsletters[d], sent_newsletters'[d])
         /\ \A e \in DOMAIN sent_newsletters \ {d} :
               sent_newsletters'[e] = sent_newsletters[e]

\* Applying one update a second time, later, gives the table of applying it
\* once, up to the columns of `columns`.
SecondUpdateChangesOnly(columns) ==
    \A id \in DOMAIN sent_newsletters, r \in {0, 5}, o \in {0, 3}, c \in {0, 1} :
       LET once == update_metrics(sent_newsletters, id, r, o, c, clock + 1)
           twice == update_metrics(once, id, r, o, c, clock + 2)
       IN \A e \in DOMAIN once : SameOutside(columns, once[e], twice[e])

\* C34 (as stated): update_metrics changes only the recipients, opens and
\* clicks counts of the addressed newsletter, and applying the same update
\* twice leaves the same state as applying it once.
C34_MetricsWriteOnlyCounts ==
    /\ [](SecondUpdateChangesOnly({}))
    /\ [][MetricsWritten => WritesOnly(MetricColumns)]_vars

\* C34 (amended): update_metrics changes only the three counts and
\* updated_at of the addressed newsletter: status, campaign id, preview and
\* sent timestamps and every other newsletter are unchanged, and a second
\* application of the same update changes nothing but updated_at.
C34_MetricsWriteCountsAndUpdatedAt ==
    /\ [](SecondUpdateChangesOnly({"updated_at"}))
    /\ [][MetricsWritten => WritesOnly(MetricColumns \cup {"updated_at"})]_vars

\* A sent newsletter has received its metrics twice.
C34_Witness ==
    \E d \in DOMAIN sent_newsletters :
       /\ sent_newsletters[d].status = SENT
       /\ sent_newsletters[d].recipients_count = 5
       /\ sent_newsletters[d].opens_count = 3
       /\ sent_newsletters[d].updated_at = 2
       /\ sent_newsletters[d].sent_at = 0

\* The loop over the sources has handled the source at scrape.k in this step.
SourceStep == scrape.pc = "sources" /\ scrape' # scrape

\* The items counted so far in a run: the merged kinds and the kind in progress.
Counted(scr) ==
    [sources_scraped |-> scr.stats.sources_scraped + scr.sub.sources_scraped,
     items_found |-> scr.stats.items_found + scr.sub.items_found,
     items_new |-> scr.stats.items_new + scr.sub.items_new,
     items_duplicate |-> scr.stats.items_duplicate + scr.sub.items_duplicate]

\* C35: when scrape() or the storing of the items of a source raises, the
\* run goes on with the next source of the kind or of the next kinds, with
\* the counts of the sources before it kept; after the last source it
\* records the run, and whether or not that raises run_scrape returns the
\* stats.
C35_SourceFailureDoesNotAbort ==
    [][/\ (SourceStep /\ scrape'.last # "ok") =>
              LET j == next_source(scrape.source_type, scrape.k) IN
              /\ scrape'.k = j
              /\ scrape'.pc = IF j = 0 THEN "record" ELSE "sources"
              /\ Counted(scrape') = Counted(scrape)
              /\ scrape'.stats.errors = scrape.stats.errors
       /\ (scrape.pc \in {"record", "except"} /\ scrape' # scrape) =>
              /\ scrape'.pc \in {"except", "returned"}
              /\ scrape.pc = "except" => scrape'.pc = "returned"
              /\ Counted(scrape') = Counted(scrape)]_vars

\* C35 witness: a run over all kinds has returned; both news sources and the
\* council source raised, and the social source after them was scraped and
\* its items counted.
C35_Witness ==
    /\ scrape.pc = "returned"
    /\ scrape.source_type = "all"
    /\ scrape.last = "ok"
    /\ scrape.stats.sources_scraped = 1
    /\ scrape.stats.items_found = 2

\* max_retries of test_connection_retry_on_failure
max_retries == 3

\* connect() has called asyncpg.create_pool in this step.
ConnectAttempted == Len(database'.attempts) > Len(database.attempts)

\* C36: connect makes up to max_retries attempts and stops at the first
\* that succeeds: it raises only after max_retries failed attempts.
C36_ConnectRetries ==
    [][(ConnectAttempted /\ database'.result = "raised") =>
          Len(database'.attempts) - Len(database.attempts) = max_retries]_vars

\* C37: create_many's counts partition its input, new is the number of rows
\* it inserted, and the stats of a scrape run satisfy items_found =
\* items_new + items_duplicate.
C37_CountsPartitionInput ==
    /\ \A kind \in {"news", "council", "social"}, items \in ItemLists :
          LET r == create_many(scraped_content, contents_of(kind, items), 0) IN
          /\ ~r.raised
          /\ r.new + r.duplicate = Len(items)
          /\ r.new = Len(r.table) - Len(scraped_content)
    /\ scrape.stats.items_found = scrape.stats.items_new + scrape.stats.items_duplicate
    /\ scrape.sub.items_found = scrape.sub.items_new + scrape.sub.items_duplicate

\* C37 witness: a run returned that counted new items and duplicates, with a
\* source among its sources whose storing raised.
C37_Witness ==
    /\ scrape.pc = "returned"
    /\ scrape.stats.items_new = 2
    /\ scrape.stats.items_duplicate = 3
    /\ scrape.stats.items_found = 5
    /\ scrape.stats.sources_scraped = 3

\* C38: the completion of the send of one newsletter does not clear the
\* pending id of another: whenever a step of the running process clears
\* the pending id, it is a _send_pending_newsletter that sent that very
\* newsletter.
C38_CompletionClearsOwnPendingOnly ==
    [][(pending_newsletter_id # NULL /\ pending_newsletter_id' = NULL /\ ~fresh_start') =>
          \E p \in Senders :
             /\ pc[p] # "save" /\ pc'[p] = "save"
             /\ loc[p].id = pending_newsletter_id]_vars

\* The approved items of the lookback window all of whose links are to
\* newsletters that ended Failed.
LinkedToFailedOnly ==
    {i \in DOMAIN approved_rows :
        /\ \E l \in newsletter_content_links : l.content_id = i
        /\ \A l \in newsletter_content_links :
              l.content_id = i => sent_newsletters[l.newsletter_id].status = FAILED}

\* C39: the items linked to a Failed newsletter are eligible for the next
\* assembly: a build_newsletter that finds such items does not return None
\* and links them to the newsletter it creates.
C39_FailedContentIsEligibleAgain ==
    [][(BuildReturns /\ pc'["builder"] # "raised" /\ LinkedToFailedOnly # {}) =>
          /\ pc'["builder"] = "newsletter_id"
          /\ Len(sent_newsletters') = Len(sent_newsletters) + 1
          /\ \A i \in LinkedToFailedOnly :
                \E l \in newsletter_content_links' :
                   l.content_id = i /\ l.newsletter_id = Len(sent_newsletters')]_vars

\* The generation job arms the auto-send in this step.
Arms == pc["gen"] = "save" /\ pc'["gen"] = "idle" /\ ~fresh_start'

\* C40: the job store holds the three recurring jobs and at most the one
\* one-shot job, which is the job of one newsletter; arming for a newly
\* previewed newsletter makes the job that newsletter's, also when a job
\* for an earlier newsletter was registered; after start() the one-shot
\* job is not registered, and it becomes registered only by the arming
\* that follows a successful preview.
C40_OneAutoSendJob ==
    /\ [](/\ RecurringJobs \subseteq jobs
          /\ jobs \subseteq RecurringJobs \cup {SendJob}
          /\ (SendJob \in jobs) <=> (armed_for # NULL))
    /\ [][/\ Arms => (SendJob \in jobs' /\ armed_for' = loc["gen"].id)
          /\ fresh_start' => jobs' = RecurringJobs
          /\ (armed_for' # NULL /\ armed_for' # armed_for) =>
                /\ Arms
                /\ sent_newsletters[armed_for'].mailchimp_campaign_id # NULL]_vars

\* C40 witness: the job registered for newsletter 1 has been replaced by the
\* job for newsletter 2 before it fired.
C40_Witness ==
    /\ SendJob \in jobs
    /\ armed_for = 2
    /\ pending_newsletter_id = 2
    /\ Len(sent_newsletters) = 2
    /\ sent_newsletters[1].status = PREVIEW_SENT
    /\ \A p \in Senders : pc[p] = "idle"

====
